---- MODULE Spec2Model ----
(***************************************************************************)
(* pixelcrush: model of the dithering core (src/src/app/page.tsx, the part *)
(* imported as "@/lib/dither") and of the palette state of the DitherTool  *)
(* component.                                                              *)
(*                                                                         *)
(* Conventions.  Indices are 0-based as in the source; a JavaScript array  *)
(* a is a sequence s with a[i] = s[i+1].  An RGB colour is a record        *)
(* [r, g, b].  The value `undefined` and a thrown TypeError are the        *)
(* records Undefined and Thrown.  The Floyd-Steinberg accumulators are     *)
(* kept in sixteenths: every value the code stores in `pixels` is an       *)
(* integer plus integer multiples of 1/16, which doubles hold exactly.     *)
(***************************************************************************)
EXTENDS Integers, Sequences, FiniteSets, TLC

VARIABLES
    \* ---- one call of floydSteinbergDither / orderedDither ----
    width,        \* imageData.width
    height,       \* imageData.height
    data,         \* imageData.data, one RGB record per pixel (alpha is never written)
    input,        \* the buffer as it was passed in
    palette,      \* the RGB[] palette argument
    paletteMode,  \* "nearest" | "luminance" | "gradient-horizontal" | "gradient-vertical"
    algorithm,    \* "floyd-steinberg" | "ordered"
    pixels,       \* floydSteinbergDither's float copy, in sixteenths
    visited,      \* the cells whose loop body has run
    oldColor,     \* the loop body's colour key (oldColor / color) of the last cell
    newColor,     \* the loop body's newColor of the last cell
    status,       \* "idle" | "running" | "done" | "threw"
    \* ---- one call of hexToRgb ----
    hex,          \* the argument, a sequence of characters
    hexResult,    \* the returned RGB, Undefined before the call
    \* ---- one call of processImage ----
    sourceWidth,  \* sourceCanvas.width
    sourceHeight, \* sourceCanvas.height
    pixelSize,    \* the pixelSize argument
    scaledWidth,  \* smallCanvas.width
    scaledHeight, \* smallCanvas.height
    outputWidth,  \* outputCanvas.width
    outputHeight, \* outputCanvas.height
    processPc,    \* "idle" | "start" | "scaled" | "dithered" | "returned" | "threw"
    \* ---- the DitherTool component: palette state ----
    uiPalette,          \* palette: a sequence of strings, each a sequence of characters
    uiNewColor,         \* newColor (the add-colour field)
    editingIndex,       \* number | null
    dragIndex,          \* number | null
    sourceImage,        \* HTMLImageElement | null, as drawn on a canvas
    useImagePalette,    \* boolean
    paletteColorCount,  \* number
    userPresets,        \* UserPreset[], the settings that determine the palette
    processCalls,       \* the palette arguments of the processImage calls of the last event
    processSizes,       \* the pixelSize arguments of the same calls
    uiEvents,           \* number of events handled since the mount
    uiPc,               \* "idle" | "mounting" | "ready"
    \* ---- the DitherTool component: settings ----
    uiPixelSize,        \* pixelSize
    debouncedPixelSize, \* useDebounce(pixelSize, 150)
    uiAlgorithm,        \* algorithm
    uiPaletteMode,      \* paletteMode
    frameDelay,         \* frameDelay
    \* ---- one call of extractColorsFromImage ----
    extractImg,         \* img
    extractCount,       \* colorCount
    extractPixels,      \* pixels: the sampled pixels kept by the alpha test
    extractFirst,       \* selectedColors.length after the first greedy loop
    extractSelected,    \* selectedColors after both loops
    extractResult,      \* the array returned
    extractPc,          \* "idle" | "called" | "returned" | "threw"
    leafPixels,         \* pixels of one call medianCut(pixels, 0)
    leafResult,       \* the array that call returns, <<>> before it returns
    \* ---- the DitherTool component: GIF timeline ----
    frames,             \* Frame[]: id and the size of the frame's canvas
    timelineDragIndex,  \* number | null
    now,                \* Date.now(), in ms since the mount
    isGeneratingGif,    \* boolean
    gifCalls,           \* number of GIF encoders constructed
    gifSize,            \* width and height options of the last encoder
    gifFrames,          \* the addFrame calls on the last encoder, in order
    gifEvents,          \* number of timeline events handled since the mount
    gifPending,         \* number of encoders rendering: 'finished' has not fired yet
    gifProgress,        \* gifProgress
    gifCompletions      \* number of calls of generateGif's onComplete callback

ditherVars == <<width, height, data, input, palette, paletteMode, algorithm,
                pixels, visited, oldColor, newColor, status>>

hexVars == <<hex, hexResult>>

processVars == <<sourceWidth, sourceHeight, pixelSize, scaledWidth, scaledHeight,
                 outputWidth, outputHeight, processPc>>

uiVars == <<uiPalette, uiNewColor, editingIndex, dragIndex, sourceImage, useImagePalette,
           paletteColorCount, userPresets, processCalls, processSizes, uiEvents, uiPc>>

settingsVars == <<uiPixelSize, debouncedPixelSize, uiAlgorithm, uiPaletteMode, frameDelay>>

extractVars == <<extractImg, extractCount, extractPixels, extractFirst, extractSelected,
                 extractResult, extractPc, leafPixels, leafResult>>

gifVars == <<frames, timelineDragIndex, now, isGeneratingGif, gifCalls, gifSize, gifFrames,
             gifEvents, gifPending, gifProgress, gifCompletions>>

vars == <<ditherVars, hexVars, processVars, uiVars, settingsVars, extractVars, gifVars>>

----------------------------------------------------------------------------
(* Bounds of the model *)

MaxCells == 4
MaxPal == 2
MaxLumPal == 3
MaxHexLen == 7
MaxSourceWidth == 25
MaxSourceHeight == 2
MaxUIEvents == 3
MaxGifEvents == 5

----------------------------------------------------------------------------
(* JavaScript values *)

Undefined == [tag |-> "undefined"]
Thrown == [tag |-> "TypeError"]

IsColor(v) == DOMAIN v = {"r", "g", "b"}

RGB(r0, g0, b0) == [r |-> r0, g |-> g0, b |-> b0]

Min2(a, b) == IF a < b THEN a ELSE b
Max2(a, b) == IF a > b THEN a ELSE b

\* At with a default colour in place of undefined
AtOrBlack(arr, i) ==
    IF i >= 0 /\ i < Len(arr) THEN arr[i + 1] ELSE [r |-> 0, g |-> 0, b |-> 0]

\* palette[i] of a JavaScript array: undefined outside 0..length-1
At(arr, i) == IF i >= 0 /\ i < Len(arr) THEN arr[i + 1] ELSE Undefined

\* Math.max(0, Math.min(255, v))
Clamp255(v) == Max2(0, Min2(255, v))

\* Math.round of n/d (d > 0): the nearest integer, halves towards +Infinity
RoundDiv(n, d) == (2 * n + d) \div (2 * d)

Modes == {"nearest", "luminance", "gradient-horizontal", "gradient-vertical"}
Algorithms == {"floyd-steinberg", "ordered"}

----------------------------------------------------------------------------
(* hexToRgb *)

LowerDigits == <<"0", "1", "2", "3", "4", "5", "6", "7", "8", "9",
                 "a", "b", "c", "d", "e", "f">>
UpperDigits == <<"0", "1", "2", "3", "4", "5", "6", "7", "8", "9",
                 "A", "B", "C", "D", "E", "F">>

\* [a-f\d] without the i flag
IsHexDigitLower(ch) == \E k \in 1..16 : ch = LowerDigits[k]

\* [a-f\d] under the i flag
IsHexDigit(ch) == \E k \in 1..16 : ch = LowerDigits[k] \/ ch = UpperDigits[k]

\* the value parseInt(_, 16) gives one hexadecimal digit
DigitValue(ch) == (CHOOSE k \in 1..16 : ch = LowerDigits[k] \/ ch = UpperDigits[k]) - 1

\* parseInt(result[k], 16) of a two-digit group
parseInt16(c1, c2) == 16 * DigitValue(c1) + DigitValue(c2)

\* /^#?([a-f\d]{2})([a-f\d]{2})([a-f\d]{2})$/i.exec(hex): the offset of the
\* first group when the whole string matches, -1 when it does not.  A leading
\* '#' can only be matched by '#?', since '#' is no hexadecimal digit.
RegexExec(str) ==
    LET start == IF Len(str) >= 1 /\ str[1] = "#" THEN 1 ELSE 0
    IN  IF Len(str) = start + 6 /\ \A i \in (start + 1)..(start + 6) : IsHexDigit(str[i])
        THEN start ELSE -1

hexToRgb(str) ==
    LET start == RegexExec(str)
    IN  IF start < 0 THEN RGB(0, 0, 0)
        ELSE RGB(parseInt16(str[start + 1], str[start + 2]),
                 parseInt16(str[start + 3], str[start + 4]),
                 parseInt16(str[start + 5], str[start + 6]))

----------------------------------------------------------------------------
(* Colour functions *)

\* SqDistance without the red channel
SqDistanceGreenBlue(c1, c2) ==
    (c1.g - c2.g) * (c1.g - c2.g) + (c1.b - c2.b) * (c1.b - c2.b)

\* Math.sqrt is strictly increasing and every colour that reaches
\* colorDistance has integer channels, so two distances compare as their
\* squares do; SqDistance is the radicand of colorDistance.
SqDistance(c1, c2) ==
    (c1.r - c2.r) * (c1.r - c2.r) + (c1.g - c2.g) * (c1.g - c2.g)
        + (c1.b - c2.b) * (c1.b - c2.b)

\* `let minDistance = Infinity`: above every squared distance of 8-bit colours
Infinity == 195076

\* getLuminance, in thousandths (0.299, 0.587, 0.114 taken as exact decimals)
getLuminance(color) == 299 * color.r + 587 * color.g + 114 * color.b

\* lerpColor(c1, c2, t) with t = tn/td; reading a channel of undefined throws
lerpColor(c1, c2, tn, td) ==
    IF ~IsColor(c1) \/ ~IsColor(c2) THEN Thrown
    ELSE RGB(RoundDiv(c1.r * td + (c2.r - c1.r) * tn, td),
             RoundDiv(c1.g * td + (c2.g - c1.g) * tn, td),
             RoundDiv(c1.b * td + (c2.b - c1.b) * tn, td))

\* getGradientColor(palette, position) with position = pn/pd
getGradientColor(pal, pn, pd) ==
    IF Len(pal) = 1 THEN pal[1]
    ELSE LET scaledNum == pn * (Len(pal) - 1)
             index == scaledNum \div pd
             tn == scaledNum % pd
         IN  IF index >= Len(pal) - 1 THEN At(pal, Len(pal) - 1)
             ELSE lerpColor(At(pal, index), At(pal, index + 1), tn, pd)

\* NearestScan with `distance <= minDistance`: the last of several nearest entries
RECURSIVE NearestScanLast(_, _, _, _, _)
NearestScanLast(color, pal, i, minDistance, nearest) ==
    IF i >= Len(pal) THEN nearest
    ELSE IF ~IsColor(pal[i + 1]) THEN Thrown
    ELSE LET distance == SqDistance(color, pal[i + 1])
         IN  IF distance <= minDistance
             THEN NearestScanLast(color, pal, i + 1, distance, pal[i + 1])
             ELSE NearestScanLast(color, pal, i + 1, minDistance, nearest)

\* The for-of loop of findNearestColor from entry i on: a strictly smaller
\* distance replaces the current nearest.
RECURSIVE NearestScan(_, _, _, _, _)
NearestScan(color, pal, i, minDistance, nearest) ==
    IF i >= Len(pal) THEN nearest
    ELSE IF ~IsColor(pal[i + 1]) THEN Thrown
    ELSE LET distance == SqDistance(color, pal[i + 1])
         IN  IF distance < minDistance
             THEN NearestScan(color, pal, i + 1, distance, pal[i + 1])
             ELSE NearestScan(color, pal, i + 1, minDistance, nearest)

findNearestColor(color, pal) ==
    IF ~IsColor(color) THEN Thrown
    ELSE NearestScan(color, pal, 0, Infinity, At(pal, 0))

\* findColorByLuminance without the Math.min(palette.length - 1, ...) clamp
findColorByLuminanceNoClamp(color, pal) ==
    At(pal, (getLuminance(color) * Len(pal)) \div 255000)

findColorByLuminance(color, pal) ==
    LET index == Min2(Len(pal) - 1, (getLuminance(color) * Len(pal)) \div 255000)
    IN  At(pal, index)

BAYER_MATRIX_4x4 ==
    << <<0, 8, 2, 10>>, <<12, 4, 14, 6>>, <<3, 11, 1, 9>>, <<15, 7, 13, 5>> >>

\* getBayerThreshold without the subtraction of 0.5
getBayerThresholdUnshifted(x, y) == BAYER_MATRIX_4x4[(y % 4) + 1][(x % 4) + 1]

\* getBayerThreshold(x, y), in sixteenths: matrixValue/16 - 0.5 = (matrixValue - 8)/16
getBayerThreshold(x, y) == BAYER_MATRIX_4x4[(y % 4) + 1][(x % 4) + 1] - 8

\* const spreadFactor = 64
spreadFactor == 64

----------------------------------------------------------------------------
(* The palette-mode switch and the loop bodies of the two dither functions *)

IsThrown(v) == DOMAIN v = {"tag"} /\ v.tag = "TypeError"

\* GradientBlend without the final findNearestColor
GradientBlendNoSnap(gradient, key, pal) ==
    lerpColor(gradient, findNearestColor(key, pal), 1, 2)

\* The three statements shared by all four gradient branches:
\* nearest = findNearestColor(key, palette); newColor = lerpColor(newColor,
\* nearest, 0.5); newColor = findNearestColor(newColor, palette)
GradientBlend(gradient, key, pal) ==
    LET nearest == findNearestColor(key, pal)
        blended == lerpColor(gradient, nearest, 1, 2)
    IN  IF IsThrown(blended) THEN Thrown ELSE findNearestColor(blended, pal)

\* The switch with the horizontal branch reading the position y / height
FSNewColorVerticalPos(old, x, y, w, h, pal, mode) ==
    CASE mode = "luminance" -> findColorByLuminance(old, pal)
      [] mode = "gradient-horizontal" ->
            LET first == findNearestColor(old, <<getGradientColor(pal, y, h)>>)
            IN  IF IsThrown(first) THEN Thrown
                ELSE GradientBlend(getGradientColor(pal, y, h), old, pal)
      [] mode = "gradient-vertical" ->
            GradientBlend(getGradientColor(pal, y, h), old, pal)
      [] OTHER -> findNearestColor(old, pal)

\* switch (paletteMode) of floydSteinbergDither
FSNewColor(old, x, y, w, h, pal, mode) ==
    CASE mode = "luminance" -> findColorByLuminance(old, pal)
      [] mode = "gradient-horizontal" ->
            LET first == findNearestColor(old, <<getGradientColor(pal, x, w)>>)
            IN  IF IsThrown(first) THEN Thrown
                ELSE GradientBlend(getGradientColor(pal, x, w), old, pal)
      [] mode = "gradient-vertical" ->
            GradientBlend(getGradientColor(pal, y, h), old, pal)
      [] OTHER -> findNearestColor(old, pal)

\* switch (paletteMode) of orderedDither
OrderedNewColor(color, x, y, w, h, pal, mode) ==
    CASE mode = "luminance" -> findColorByLuminance(color, pal)
      [] mode = "gradient-horizontal" ->
            GradientBlend(getGradientColor(pal, x, w), color, pal)
      [] mode = "gradient-vertical" ->
            GradientBlend(getGradientColor(pal, y, h), color, pal)
      [] OTHER -> findNearestColor(color, pal)

\* pixels[i][c] += error[c] * (k / 16), in sixteenths
AddError(px, i, err, k) ==
    [px EXCEPT ![i + 1] = <<@[1] + err[1] * k, @[2] + err[2] * k, @[3] + err[3] * k>>]

\* The neighbour updates with the weights of the two cells below exchanged
DiffuseSwapped(px, x, y, w, h, err) ==
    LET idx == y * w + x
        p1 == IF x + 1 < w THEN AddError(px, idx + 1, err, 7) ELSE px
        p2 == IF y + 1 < h /\ x - 1 >= 0
              THEN AddError(p1, (y + 1) * w + (x - 1), err, 5) ELSE p1
        p3 == IF y + 1 < h THEN AddError(p2, (y + 1) * w + x, err, 3) ELSE p2
        p4 == IF y + 1 < h /\ x + 1 < w
              THEN AddError(p3, (y + 1) * w + (x + 1), err, 1) ELSE p3
    IN  p4

\* The four guarded neighbour updates of floydSteinbergDither
Diffuse(px, x, y, w, h, err) ==
    LET idx == y * w + x
        p1 == IF x + 1 < w THEN AddError(px, idx + 1, err, 7) ELSE px
        p2 == IF y + 1 < h /\ x - 1 >= 0
              THEN AddError(p1, (y + 1) * w + (x - 1), err, 3) ELSE p1
        p3 == IF y + 1 < h THEN AddError(p2, (y + 1) * w + x, err, 5) ELSE p2
        p4 == IF y + 1 < h /\ x + 1 < w
              THEN AddError(p3, (y + 1) * w + (x + 1), err, 1) ELSE p3
    IN  p4

\* Math.max(0, Math.min(255, Math.round(pixels[idx][c])))
FSOldColor(px, idx) ==
    RGB(Clamp255(RoundDiv(px[idx + 1][1], 16)),
        Clamp255(RoundDiv(px[idx + 1][2], 16)),
        Clamp255(RoundDiv(px[idx + 1][3], 16)))

\* The iteration writing the rounded accumulator instead of the palette colour
FSCellKeepOld(px, dat, idx, w, h, pal, mode) ==
    LET x == idx % w
        y == idx \div w
        old == FSOldColor(px, idx)
        new == FSNewColor(old, x, y, w, h, pal, mode)
    IN  IF ~IsColor(new)
        THEN [threw |-> TRUE, old |-> old, new |-> new, data |-> dat, pixels |-> px]
        ELSE [threw |-> FALSE, old |-> old, new |-> new,
              data |-> [dat EXCEPT ![idx + 1] = old],
              pixels |-> Diffuse(px, x, y, w, h,
                                 <<old.r - new.r, old.g - new.g, old.b - new.b>>)]

\* One iteration of the loops of floydSteinbergDither, at cell idx.  Reading
\* newColor.r of undefined throws before data is written.
FSCell(px, dat, idx, w, h, pal, mode) ==
    LET x == idx % w
        y == idx \div w
        old == FSOldColor(px, idx)
        new == FSNewColor(old, x, y, w, h, pal, mode)
    IN  IF ~IsColor(new)
        THEN [threw |-> TRUE, old |-> old, new |-> new, data |-> dat, pixels |-> px]
        ELSE [threw |-> FALSE, old |-> old, new |-> new,
              data |-> [dat EXCEPT ![idx + 1] = new],
              pixels |-> Diffuse(px, x, y, w, h,
                                 <<old.r - new.r, old.g - new.g, old.b - new.b>>)]

\* OrderedColor reading the cell before idx (idx - 4 in the byte array)
OrderedColorPrev(dat, idx, w) ==
    LET offset == (getBayerThreshold(idx % w, idx \div w) * spreadFactor) \div 16
        src == IF idx > 0 THEN idx ELSE idx + 1
    IN  RGB(Clamp255(dat[src].r + offset),
            Clamp255(dat[src].g + offset),
            Clamp255(dat[src].b + offset))

\* The perturbed colour of orderedDither: data[idx + c] + threshold * spreadFactor
OrderedColor(dat, idx, w) ==
    LET offset == (getBayerThreshold(idx % w, idx \div w) * spreadFactor) \div 16
    IN  RGB(Clamp255(dat[idx + 1].r + offset),
            Clamp255(dat[idx + 1].g + offset),
            Clamp255(dat[idx + 1].b + offset))

\* One iteration of the loops of orderedDither, at cell idx
OrderedCell(dat, idx, w, h, pal, mode) ==
    LET color == OrderedColor(dat, idx, w)
        new == OrderedNewColor(color, idx % w, idx \div w, w, h, pal, mode)
    IN  IF ~IsColor(new)
        THEN [threw |-> TRUE, old |-> color, new |-> new, data |-> dat]
        ELSE [threw |-> FALSE, old |-> color, new |-> new,
              data |-> [dat EXCEPT ![idx + 1] = new]]

\* floydSteinbergDither from cell idx to the end of the buffer: the final data,
\* or the data at the throw
RECURSIVE FSRunFrom(_, _, _, _, _, _, _)
FSRunFrom(px, dat, idx, w, h, pal, mode) ==
    IF idx >= w * h THEN dat
    ELSE LET c == FSCell(px, dat, idx, w, h, pal, mode)
         IN  IF c.threw THEN dat
             ELSE FSRunFrom(c.pixels, c.data, idx + 1, w, h, pal, mode)

\* orderedDither from cell idx to the end of the buffer, in raster order
RECURSIVE OrderedRunFrom(_, _, _, _, _, _)
OrderedRunFrom(dat, idx, w, h, pal, mode) ==
    IF idx >= w * h THEN dat
    ELSE LET c == OrderedCell(dat, idx, w, h, pal, mode)
         IN  IF c.threw THEN dat
             ELSE OrderedRunFrom(c.data, idx + 1, w, h, pal, mode)

\* The buffer a whole call of the chosen dither function leaves
DitherRun(alg, dat, w, h, pal, mode) ==
    IF alg = "floyd-steinberg"
    THEN FSRunFrom([i \in 1..Len(dat) |-> <<16 * dat[i].r, 16 * dat[i].g, 16 * dat[i].b>>],
                   dat, 0, w, h, pal, mode)
    ELSE OrderedRunFrom(dat, 0, w, h, pal, mode)

----------------------------------------------------------------------------
(* Inputs of the dither functions *)

Black == RGB(0, 0, 0)
White == RGB(255, 255, 255)
Red == RGB(255, 0, 0)
Yellow == RGB(255, 255, 0)
Gray == RGB(128, 128, 128)

PixelColors == {Red, Yellow, Gray}
PaletteColors == {Black, White, Red}

SeqsUpTo(S, n) == UNION {[1..k -> S] : k \in 0..n}

Dims == {d \in (1..MaxCells) \X (1..MaxCells) : d[1] * d[2] <= MaxCells}

\* const pixels: number[][] = [] ... pixels.push([data[i], data[i+1], data[i+2]])
FloatCopy(dat) == [i \in 1..Len(dat) |-> <<16 * dat[i].r, 16 * dat[i].g, 16 * dat[i].b>>]

\* No call of hexToRgb in progress
HexIdle == hex = <<>> /\ hexResult = Undefined

\* No call of processImage in progress
ProcessIdle ==
    /\ sourceWidth = 0 /\ sourceHeight = 0 /\ pixelSize = 0
    /\ scaledWidth = 0 /\ scaledHeight = 0
    /\ outputWidth = 0 /\ outputHeight = 0
    /\ processPc = "idle"

\* null of an index (editingIndex, dragIndex)
Null == -1

\* null of sourceImage
NoImage == [width |-> 0, height |-> 0, data |-> <<>>]

\* The component is not mounted
UIIdle ==
    /\ uiPalette = <<>> /\ uiNewColor = <<>>
    /\ editingIndex = Null /\ dragIndex = Null
    /\ sourceImage = NoImage
    /\ useImagePalette = FALSE /\ paletteColorCount = 0
    /\ userPresets = <<>> /\ processCalls = <<>> /\ processSizes = <<>>
    /\ uiEvents = 0 /\ uiPc = "idle"
    /\ uiPixelSize = 0 /\ debouncedPixelSize = 0
    /\ uiAlgorithm = "" /\ uiPaletteMode = "" /\ frameDelay = 0

\* No frame has been captured and no encoder constructed
NoFrames ==
    /\ frames = <<>> /\ timelineDragIndex = Null /\ now = 0
    /\ isGeneratingGif = FALSE /\ gifCalls = 0
    /\ gifSize = [width |-> 0, height |-> 0] /\ gifFrames = <<>>
    /\ gifEvents = 0
    /\ gifPending = 0 /\ gifProgress = 0 /\ gifCompletions = 0

\* extractColorsFromImage is not running
ExtractIdle ==
    /\ extractImg = NoImage /\ extractCount = 0
    /\ extractPixels = <<>> /\ extractFirst = 0 /\ extractSelected = <<>>
    /\ extractResult = <<>> /\ extractPc = "idle"
    /\ leafPixels = <<>> /\ leafResult = <<>>

InitDither ==
    /\ HexIdle
    /\ ProcessIdle
    /\ UIIdle
    /\ ExtractIdle
    /\ NoFrames
    /\ \E d \in Dims :
          /\ width = d[1]
          /\ height = d[2]
          /\ data \in [1..(d[1] * d[2]) -> PixelColors]
    /\ input = data
    /\ palette \in SeqsUpTo(PaletteColors, MaxPal)
    /\ paletteMode \in Modes
    /\ algorithm \in Algorithms
    /\ pixels = IF algorithm = "floyd-steinberg" THEN FloatCopy(data) ELSE <<>>
    /\ visited = {}
    /\ oldColor = Undefined
    /\ newColor = Undefined
    /\ status = "running"

\* floydSteinbergDither: the loop body at the next cell in raster order
FloydSteinbergStep ==
    /\ algorithm = "floyd-steinberg"
    /\ status = "running"
    /\ \E c \in {FSCell(pixels, data, Cardinality(visited), width, height, palette, paletteMode)} :
           /\ oldColor' = c.old
           /\ newColor' = c.new
           /\ data' = c.data
           /\ pixels' = c.pixels
           /\ visited' = IF c.threw THEN visited ELSE visited \cup {Cardinality(visited)}
           /\ status' = IF c.threw THEN "threw"
                        ELSE IF Cardinality(visited) + 1 = width * height THEN "done" ELSE "running"
    /\ UNCHANGED <<width, height, input, palette, paletteMode, algorithm>>
    /\ UNCHANGED <<hexVars, processVars, uiVars, settingsVars, extractVars, gifVars>>

\* orderedDither: the loop body at the next cell in raster order
OrderedStep ==
    /\ algorithm = "ordered"
    /\ status = "running"
    /\ \E c \in {OrderedCell(data, Cardinality(visited), width, height, palette, paletteMode)} :
           /\ oldColor' = c.old
           /\ newColor' = c.new
           /\ data' = c.data
           /\ visited' = IF c.threw THEN visited ELSE visited \cup {Cardinality(visited)}
           /\ status' = IF c.threw THEN "threw"
                        ELSE IF Cardinality(visited) + 1 = width * height THEN "done" ELSE "running"
    /\ UNCHANGED <<width, height, input, palette, paletteMode, algorithm, pixels>>
    /\ UNCHANGED <<hexVars, processVars, uiVars, settingsVars, extractVars, gifVars>>

\* The loop body of orderedDither run at any cell not yet processed: the
\* iterations of orderedDither taken in an arbitrary order
OrderedStepAnyOrder ==
    /\ algorithm = "ordered"
    /\ status = "running"
    /\ \E idx \in (0..(width * height - 1)) \ visited :
         \E c \in {OrderedCell(data, idx, width, height, palette, paletteMode)} :
           /\ oldColor' = c.old
           /\ newColor' = c.new
           /\ data' = c.data
           /\ visited' = IF c.threw THEN visited ELSE visited \cup {idx}
           /\ status' = IF c.threw THEN "threw"
                        ELSE IF Cardinality(visited) + 1 = width * height
                             THEN "done" ELSE "running"
    /\ UNCHANGED <<width, height, input, palette, paletteMode, algorithm, pixels>>
    /\ UNCHANGED <<hexVars, processVars, uiVars, settingsVars, extractVars, gifVars>>

Init == InitDither

Next == FloydSteinbergStep \/ OrderedStep

\* The two dither functions, cell by cell in raster order
Spec == Init /\ [][Next]_vars

----------------------------------------------------------------------------
(* floydSteinbergDither on uniform buffers large enough for an interior cell *)

MaxGrayCells == 6

GrayLevels == {0, 1, 64, 100, 127, 128, 200, 255}

Orange == RGB(200, 100, 30)

UniformColors == {RGB(v, v, v) : v \in GrayLevels} \cup {Orange}

GrayDims == {d \in (1..MaxGrayCells) \X (1..MaxGrayCells) : d[1] * d[2] <= MaxGrayCells}

\* floydSteinbergDither(data, width, height, [black, white], 'nearest') on a
\* buffer of one colour
InitGray ==
    /\ HexIdle
    /\ ProcessIdle
    /\ UIIdle
    /\ ExtractIdle
    /\ NoFrames
    /\ \E d \in GrayDims, color \in UniformColors :
          /\ width = d[1]
          /\ height = d[2]
          /\ data = [i \in 1..(d[1] * d[2]) |-> color]
    /\ input = data
    /\ palette = <<Black, White>>
    /\ paletteMode = "nearest"
    /\ algorithm = "floyd-steinberg"
    /\ pixels = FloatCopy(data)
    /\ visited = {}
    /\ oldColor = Undefined
    /\ newColor = Undefined
    /\ status = "running"

NextGray == FloydSteinbergStep

SpecGray == InitGray /\ [][NextGray]_vars

----------------------------------------------------------------------------
(* orderedDither on buffers that cover the whole Bayer matrix *)

MaxBayerSide == 4

Teal == RGB(10, 128, 250)

BayerColors == {Black, White, Teal}

\* orderedDither(imageData, [black, white], paletteMode) on a buffer of one colour
InitBayer ==
    /\ HexIdle
    /\ ProcessIdle
    /\ UIIdle
    /\ ExtractIdle
    /\ NoFrames
    /\ \E w \in 1..MaxBayerSide, h \in 1..MaxBayerSide, color \in BayerColors :
          /\ width = w
          /\ height = h
          /\ data = [i \in 1..(w * h) |-> color]
    /\ input = data
    /\ palette = <<Black, White>>
    /\ paletteMode \in {"nearest", "luminance"}
    /\ algorithm = "ordered"
    /\ pixels = <<>>
    /\ visited = {}
    /\ oldColor = Undefined
    /\ newColor = Undefined
    /\ status = "running"

NextBayer == OrderedStep

SpecBayer == InitBayer /\ [][NextBayer]_vars

----------------------------------------------------------------------------
(* floydSteinbergDither on buffers that hold palette colours *)

\* Pixels of buffers that were or were not dithered before: two colours the
\* palettes can hold and one they cannot
DitheredColors == {Black, Red, Gray}

\* floydSteinbergDither(data, width, height, palette, 'nearest')
InitAgain ==
    /\ HexIdle
    /\ ProcessIdle
    /\ UIIdle
    /\ ExtractIdle
    /\ NoFrames
    /\ \E d \in Dims :
          /\ width = d[1]
          /\ height = d[2]
          /\ data \in [1..(d[1] * d[2]) -> DitheredColors]
    /\ input = data
    /\ palette \in SeqsUpTo(PaletteColors, MaxPal)
    /\ paletteMode = "nearest"
    /\ algorithm = "floyd-steinberg"
    /\ pixels = FloatCopy(data)
    /\ visited = {}
    /\ oldColor = Undefined
    /\ newColor = Undefined
    /\ status = "running"

NextAgain == FloydSteinbergStep

SpecAgain == InitAgain /\ [][NextAgain]_vars

----------------------------------------------------------------------------
(* orderedDither with the iterations in any order *)

AnyOrderPixelColors == {Red, Gray}

InitAnyOrder ==
    /\ InitDither
    /\ algorithm = "ordered"
    /\ \A i \in 1..Len(data) : data[i] \in AnyOrderPixelColors
    /\ \A i, j \in 1..Len(palette) : i # j => palette[i] # palette[j]

NextAnyOrder == OrderedStepAnyOrder

\* orderedDither with its iterations permuted
SpecAnyOrder == InitAnyOrder /\ [][NextAnyOrder]_vars

----------------------------------------------------------------------------
(* findColorByLuminance applied to one colour: floydSteinbergDither in
   luminance mode on a 1x1 buffer, whose key colour is the pixel itself *)

LumChannels == {0, 64, 128, 192, 255}
LumColors == {RGB(r0, g0, b0) : r0 \in LumChannels, g0 \in LumChannels, b0 \in LumChannels}
LumPaletteColors == {Black, Gray, White, Red}

InitLuminance ==
    /\ HexIdle
    /\ ProcessIdle
    /\ UIIdle
    /\ ExtractIdle
    /\ NoFrames
    /\ width = 1
    /\ height = 1
    /\ data \in [1..1 -> LumColors]
    /\ input = data
    /\ palette \in {q \in SeqsUpTo(LumPaletteColors, MaxLumPal) :
                      /\ Len(q) >= 1
                      /\ \A i, j \in 1..Len(q) : i # j => q[i] # q[j]}
    /\ paletteMode = "luminance"
    /\ algorithm = "floyd-steinberg"
    /\ pixels = FloatCopy(data)
    /\ visited = {}
    /\ oldColor = Undefined
    /\ newColor = Undefined
    /\ status = "running"

NextLuminance == FloydSteinbergStep

SpecLuminance == InitLuminance /\ [][NextLuminance]_vars

----------------------------------------------------------------------------
(* One call of hexToRgb *)

\* No call of a dither function in progress
DitherIdle ==
    /\ width = 0 /\ height = 0 /\ data = <<>> /\ input = <<>>
    /\ palette = <<>> /\ paletteMode = "nearest" /\ algorithm = "floyd-steinberg"
    /\ pixels = <<>> /\ visited = {}
    /\ oldColor = Undefined /\ newColor = Undefined
    /\ status = "idle"

HexAlphabet == {"#", "9", "a", "F", "g"}

InitHex ==
    /\ DitherIdle
    /\ ProcessIdle
    /\ UIIdle
    /\ ExtractIdle
    /\ NoFrames
    /\ hex \in SeqsUpTo(HexAlphabet, MaxHexLen)
    /\ hexResult = Undefined

HexToRgb ==
    /\ hexResult = Undefined
    /\ hexResult' = hexToRgb(hex)
    /\ UNCHANGED <<hex, ditherVars, processVars, uiVars, settingsVars, extractVars, gifVars>>

NextHex == HexToRgb

SpecHex == InitHex /\ [][NextHex]_vars

----------------------------------------------------------------------------
(* processImage: the scaled dimensions, the dither call and the output canvas.

   `scale = pixelSize / 100` and `sourceCanvas.width * scale` are IEEE-754
   double operations.  The double nearest to pixelSize/100 is M / 2^e with
   2^52 <= M < 2^53; it differs from pixelSize/100 by n / (100 * 2^e), where
   n = 100*M - pixelSize*2^e is the centred residue of -pixelSize*2^e modulo
   100.  The product with an integer dimension is rounded once more.  That
   rounding changes Math.round's result only when dimension*pixelSize/100 is
   exactly halfway between two integers. *)

MinPixelSize == 10
MaxPixelSize == 100

RECURSIVE Pow2(_)
Pow2(k) == IF k <= 0 THEN 1 ELSE 2 * Pow2(k - 1)

\* 2^k modulo 100
RECURSIVE Pow2Mod100(_)
Pow2Mod100(k) == IF k <= 0 THEN 1 ELSE (2 * Pow2Mod100(k - 1)) % 100

\* floor(log2(k)) for k >= 1
RECURSIVE FloorLog2(_)
FloorLog2(k) == IF k < 2 THEN 0 ELSE 1 + FloorLog2(k \div 2)

\* The least j >= 0 with ps * 2^j >= 100: the double ps/100 has e = 52 + j
RECURSIVE ScaleShift(_, _)
ScaleShift(ps, j) == IF ps * Pow2(j) >= 100 THEN j ELSE ScaleShift(ps, j + 1)

\* n = 100*M - ps*2^e for the double M / 2^e nearest to ps/100
ScaleResidue(ps) ==
    LET r == (ps * Pow2Mod100(52 + ScaleShift(ps, 0))) % 100
    IN  IF r <= 50 THEN 0 - r ELSE 100 - r

\* Math.round(dim * (ps / 100)) in double arithmetic, for dim >= 1 and
\* 10 <= ps <= 100.  When dim*ps/100 is k + 0.5 and the double scale lies
\* below ps/100, the double product is below k + 0.5 iff the shortfall
\* dim*|n| / (100 * 2^e) exceeds half the spacing 2^(floor(log2 k) - 52) of
\* the doubles under k + 0.5.
RoundScaled(dim, ps) ==
    LET q == dim * ps
        halfUp == (q + 50) \div 100
        n == ScaleResidue(ps)
    IN  IF q % 100 # 50 \/ n >= 0 \/ halfUp <= 1 THEN halfUp
        ELSE IF dim * (0 - n) >
                  100 * Pow2(ScaleShift(ps, 0) - 1 + FloorLog2(halfUp - 1))
             THEN halfUp - 1
             ELSE halfUp

\* RoundScaled without the Math.max(1, ...)
ScaledDimensionNoFloor(dim, ps) == RoundScaled(dim, ps)

\* Math.max(1, Math.round(sourceCanvas.width * scale))
ScaledDimension(dim, ps) == Max2(1, RoundScaled(dim, ps))

InitProcess ==
    /\ HexIdle
    /\ UIIdle
    /\ ExtractIdle
    /\ NoFrames
    /\ width = 0 /\ height = 0 /\ data = <<>> /\ input = <<>>
    /\ pixels = <<>> /\ visited = {}
    /\ oldColor = Undefined /\ newColor = Undefined
    /\ status = "idle"
    /\ palette \in {<<>>, <<Black, White>>}
    /\ paletteMode = "nearest"
    /\ algorithm \in Algorithms
    /\ sourceWidth \in 1..MaxSourceWidth
    /\ sourceHeight \in 1..MaxSourceHeight
    /\ pixelSize \in MinPixelSize..MaxPixelSize
    /\ scaledWidth = 0 /\ scaledHeight = 0
    /\ outputWidth = 0 /\ outputHeight = 0
    /\ processPc = "start"

\* processImage up to getImageData: the small canvas and its dimensions
ProcessScale ==
    /\ processPc = "start"
    /\ scaledWidth' = ScaledDimension(sourceWidth, pixelSize)
    /\ scaledHeight' = ScaledDimension(sourceHeight, pixelSize)
    /\ processPc' = "scaled"
    /\ UNCHANGED <<sourceWidth, sourceHeight, pixelSize, outputWidth, outputHeight>>
    /\ UNCHANGED <<ditherVars, hexVars, uiVars, settingsVars, extractVars, gifVars>>

\* The dither call of processImage on the scaledWidth x scaledHeight image
\* data.  The pixel contents are left out here: neither dither function
\* assigns imageData.width or imageData.height, and the call throws exactly
\* when the palette is empty (the grid has at least one cell).
ProcessDither ==
    /\ processPc = "scaled"
    /\ width' = scaledWidth
    /\ height' = scaledHeight
    /\ status' = IF Len(palette) = 0 THEN "threw" ELSE "done"
    /\ processPc' = IF Len(palette) = 0 THEN "threw" ELSE "dithered"
    /\ UNCHANGED <<data, input, palette, paletteMode, algorithm, pixels, visited,
                   oldColor, newColor>>
    /\ UNCHANGED <<sourceWidth, sourceHeight, pixelSize, scaledWidth, scaledHeight,
                   outputWidth, outputHeight>>
    /\ UNCHANGED <<hexVars, uiVars, settingsVars, extractVars, gifVars>>

\* processImage from putImageData to the return of the output canvas
ProcessOutput ==
    /\ processPc = "dithered"
    /\ outputWidth' = sourceWidth
    /\ outputHeight' = sourceHeight
    /\ processPc' = "returned"
    /\ UNCHANGED <<sourceWidth, sourceHeight, pixelSize, scaledWidth, scaledHeight>>
    /\ UNCHANGED <<ditherVars, hexVars, uiVars, settingsVars, extractVars, gifVars>>

NextProcess == ProcessScale \/ ProcessDither \/ ProcessOutput

SpecProcess == InitProcess /\ [][NextProcess]_vars

----------------------------------------------------------------------------
(* The DitherTool component: strings *)

\* A string is the sequence of its characters; "#rrggbb" literals are written
\* with HexString.
HexString(d1, d2, d3, d4, d5, d6) == <<"#", d1, d2, d3, d4, d5, d6>>

\* An array element that is `undefined` where a string is expected; it reads
\* as the text "undefined" wherever it is coerced to a string.
UndefinedEntry == <<"undefined">>

DEFAULT_PALETTE ==
    << HexString("1", "a", "0", "f", "5", "a"), HexString("e", "9", "3", "9", "f", "1"),
       HexString("3", "4", "9", "c", "f", "c"), HexString("f", "f", "9", "a", "5", "7"),
       HexString("f", "f", "f", "f", "f", "f") >>

\* The colors of PRESET_PALETTES, in order (marcywdev, Gameboy, CGA, Sunset,
\* Monochrome, Vaporwave, Sepia, Neon)
PRESET_PALETTES ==
    << << HexString("1", "a", "0", "f", "5", "a"), HexString("e", "9", "3", "9", "f", "1"),
          HexString("3", "4", "9", "c", "f", "c"), HexString("f", "f", "9", "a", "5", "7"),
          HexString("f", "f", "f", "f", "f", "f") >>,
       << HexString("0", "f", "3", "8", "0", "f"), HexString("3", "0", "6", "2", "3", "0"),
          HexString("8", "b", "a", "c", "0", "f"), HexString("9", "b", "b", "c", "0", "f") >>,
       << HexString("0", "0", "0", "0", "0", "0"), HexString("0", "0", "a", "a", "a", "a"),
          HexString("a", "a", "0", "0", "a", "a"), HexString("f", "f", "f", "f", "f", "f") >>,
       << HexString("1", "a", "0", "5", "3", "3"), HexString("6", "b", "1", "8", "3", "9"),
          HexString("c", "4", "4", "5", "3", "6"), HexString("f", "8", "a", "8", "4", "6"),
          HexString("f", "f", "f", "8", "d", "c") >>,
       << HexString("0", "0", "0", "0", "0", "0"), HexString("f", "f", "f", "f", "f", "f") >>,
       << HexString("f", "f", "7", "1", "c", "e"), HexString("0", "1", "c", "d", "f", "e"),
          HexString("0", "5", "f", "f", "a", "1"), HexString("b", "9", "6", "7", "f", "f"),
          HexString("f", "f", "f", "b", "9", "6") >>,
       << HexString("2", "b", "1", "d", "0", "e"), HexString("6", "b", "4", "4", "2", "3"),
          HexString("c", "4", "9", "a", "6", "c"), HexString("e", "6", "d", "5", "b", "8"),
          HexString("f", "5", "e", "f", "e", "6") >>,
       << HexString("0", "d", "0", "d", "0", "d"), HexString("f", "f", "0", "0", "f", "f"),
          HexString("0", "0", "f", "f", "f", "f"), HexString("f", "f", "f", "f", "0", "0"),
          HexString("f", "f", "f", "f", "f", "f") >> >>

\* arr.slice(0, n)
Slice0(arr, n) == SubSeq(arr, 1, Min2(Len(arr), n))

\* /^#[a-f0-9]{6}$/i.test(c), with typeof c === 'string'
IsHashHex6(c) ==
    /\ c # UndefinedEntry
    /\ Len(c) = 7
    /\ c[1] = "#"
    /\ \A i \in 2..7 : IsHexDigit(c[i])

\* str.split(',')
RECURSIVE Split(_, _)
Split(str, part) ==
    IF str = <<>> THEN <<part>>
    ELSE IF Head(str) = "," THEN <<part>> \o Split(Tail(str), <<>>)
    ELSE Split(Tail(str), Append(part, Head(str)))

\* c.replace(/[^a-f0-9]/gi, '')
StripNonHex(c) == SelectSeq(c, IsHexDigit)

\* /^[a-f0-9]{6}$/i.test(c)
IsHex6(c) == Len(c) = 6 /\ \A i \in 1..6 : IsHexDigit(c[i])

PrefixHash(c) == <<"#">> \o c

PaletteLimit == 20

\* The colours of the URL's palette parameter
UrlColors(paletteParam) ==
    LET parts == Split(paletteParam, <<>>)
        stripped == [i \in 1..Len(parts) |-> StripNonHex(parts[i])]
        valid == SelectSeq(stripped, IsHex6)
        limited == Slice0(valid, PaletteLimit)
    IN  [i \in 1..Len(limited) |-> PrefixHash(limited[i])]

\* The palette after the URL-parameter effect, applied without the test
\* colors.length > 0
UrlPaletteUnchecked(paletteParam, pal) ==
    IF paletteParam = <<>> THEN pal ELSE UrlColors(paletteParam)

\* The palette after the URL-parameter effect
UrlPalette(paletteParam, pal) ==
    IF paletteParam # <<>> /\ Len(UrlColors(paletteParam)) > 0
    THEN UrlColors(paletteParam) ELSE pal

\* The palette filter of the preset sanitizers and of loadUserPreset
ValidColors(pal) == Slice0(SelectSeq(pal, IsHashHex6), PaletteLimit)

MinColorCount == 2
MaxColorCount == 16

\* A parsed JSON value v with typeof v !== 'number' (a string, null, absent)
NotNumber == -2

MinFrameDelay == 100
MaxFrameDelay == 2000

\* typeof v === 'number' ? Math.max(lo, Math.min(hi, v)) : fallback
ClampOr(v, lo, hi, fallback) ==
    IF v # NotNumber THEN Max2(lo, Min2(hi, v)) ELSE fallback

\* One stored or imported preset as the sanitizer keeps it
SanitizePreset(p) ==
    [palette |-> ValidColors(p.palette),
     pixelSize |-> ClampOr(p.pixelSize, MinPixelSize, MaxPixelSize, 40),
     algorithm |-> IF p.algorithm = "ordered" THEN "ordered" ELSE "floyd-steinberg",
     paletteMode |-> IF p.paletteMode \in Modes THEN p.paletteMode ELSE "nearest",
     useImagePalette |-> p.useImagePalette,
     paletteColorCount |-> ClampOr(p.paletteColorCount, MinColorCount, MaxColorCount, 5),
     frameDelay |-> ClampOr(p.frameDelay, MinFrameDelay, MaxFrameDelay, 500)]

HasColors(p) == Len(p.palette) > 0

\* The presets the localStorage effect sets
StoredPresets(parsed) ==
    SelectSeq([i \in 1..Len(parsed) |-> SanitizePreset(parsed[i])], HasColors)

(* extractColorsFromImage.  A sampled pixel is <<r, g, b>>; an image is its
   width, its height and the RGBA data its drawing on a canvas gives.
   Distances are compared as 512 times their squares and the candidate and
   luminance sort keys as exact fractions. *)

sampleSize == 150

\* Math.floor(img.<dim> * scale), scale = Math.min(sampleSize / img.width, sampleSize / img.height, 1)
SampledDimension(dim, img) ==
    IF img.width <= sampleSize /\ img.height <= sampleSize THEN dim
    ELSE (dim * sampleSize) \div Max2(img.width, img.height)

\* The pixels the sampling loop keeps: alpha > 128
VisiblePixels(imageData) ==
    LET kept == SelectSeq(imageData, LAMBDA px : px[4] > 128)
    IN  [i \in 1..Len(kept) |-> <<kept[i][1], kept[i][2], kept[i][3]>>]

\* A channel that is NaN
NaN == -1

NaNColor == <<NaN, NaN, NaN>>

IsNaNColor(c) == c[1] = NaN

\* 512 * colorDistance(c1, c2)^2 of the redmean formula (both colours numeric)
RedmeanSq(c1, c2) ==
    LET rSum == c1[1] + c2[1]
        dR == c1[1] - c2[1]
        dG == c1[2] - c2[2]
        dB == c1[3] - c2[3]
    IN  (1024 + rSum) * dR * dR + 2048 * dG * dG + (1534 - rSum) * dB * dB

\* colorDistance(c1, c2) < limit; false when the distance is NaN
DistanceBelow(c1, c2, limit) ==
    /\ ~IsNaNColor(c1)
    /\ ~IsNaNColor(c2)
    /\ RedmeanSq(c1, c2) < 512 * limit * limit

RECURSIVE SumChannel(_, _)
SumChannel(pxs, ch) ==
    IF pxs = <<>> THEN 0 ELSE Head(pxs)[ch] + SumChannel(Tail(pxs), ch)

\* avg of a bucket: NaN for an empty bucket (0 / 0)
BucketAverage(pxs) ==
    IF pxs = <<>> THEN NaNColor
    ELSE <<RoundDiv(SumChannel(pxs, 1), Len(pxs)),
           RoundDiv(SumChannel(pxs, 2), Len(pxs)),
           RoundDiv(SumChannel(pxs, 3), Len(pxs))>>

\* The loop with `dist >= maxDist`: the last of several farthest pixels
RECURSIVE ExtremeScanLast(_, _, _, _, _)
ExtremeScanLast(pxs, i, avg, maxDist, farthest) ==
    IF i > Len(pxs) THEN farthest
    ELSE IF RedmeanSq(pxs[i], avg) >= maxDist
         THEN ExtremeScanLast(pxs, i + 1, avg, RedmeanSq(pxs[i], avg), pxs[i])
         ELSE ExtremeScanLast(pxs, i + 1, avg, maxDist, farthest)

\* The loop "find the pixel furthest from the average"
RECURSIVE ExtremeScan(_, _, _, _, _)
ExtremeScan(pxs, i, avg, maxDist, extremeColor) ==
    IF i > Len(pxs) THEN extremeColor
    ELSE IF RedmeanSq(pxs[i], avg) > maxDist
         THEN ExtremeScan(pxs, i + 1, avg, RedmeanSq(pxs[i], avg), pxs[i])
         ELSE ExtremeScan(pxs, i + 1, avg, maxDist, extremeColor)

ChannelRange(pxs, ch) ==
    LET values == {pxs[i][ch] : i \in 1..Len(pxs)}
    IN  (CHOOSE v \in values : \A u \in values : u <= v)
        - (CHOOSE v \in values : \A u \in values : v <= u)

\* The loop "find channel with greatest range": the first channel of the
\* greatest range, channel 0 when every range is 0
RECURSIVE MaxChannelScan(_, _, _, _)
MaxChannelScan(pxs, c, maxRange, maxChannel) ==
    IF c > 3 THEN maxChannel
    ELSE IF ChannelRange(pxs, c) > maxRange
         THEN MaxChannelScan(pxs, c + 1, ChannelRange(pxs, c), c)
         ELSE MaxChannelScan(pxs, c + 1, maxRange, maxChannel)

\* A stable sort of items <<key, value>> by ascending integer key
RECURSIVE InsertKeyed(_, _)
InsertKeyed(sorted, item) ==
    IF sorted = <<>> THEN <<item>>
    ELSE IF item[1] < Head(sorted)[1] THEN <<item>> \o sorted
    ELSE <<Head(sorted)>> \o InsertKeyed(Tail(sorted), item)

RECURSIVE SortKeyed(_, _)
SortKeyed(items, n) ==
    IF n = 0 THEN <<>> ELSE InsertKeyed(SortKeyed(items, n - 1), items[n])

StableSortByKey(arr, Key(_)) ==
    LET sorted == SortKeyed([i \in 1..Len(arr) |-> <<Key(arr[i]), arr[i]>>], Len(arr))
    IN  [i \in 1..Len(sorted) |-> sorted[i][2]]

RECURSIVE medianCut(_, _)
medianCut(pxs, depth) ==
    IF depth = 0 \/ Len(pxs) = 0
    THEN <<ExtremeScan(pxs, 1, BucketAverage(pxs), 0, BucketAverage(pxs))>>
    ELSE LET maxChannel == MaxChannelScan(pxs, 1, 0, 1)
             sorted == StableSortByKey(pxs, LAMBDA p : p[maxChannel])
             mid == Len(sorted) \div 2
         IN  medianCut(SubSeq(sorted, 1, mid), depth - 1)
             \o medianCut(SubSeq(sorted, mid + 1, Len(sorted)), depth - 1)

\* Math.ceil(Math.log2(colorCount * 4))
RECURSIVE CeilLog2(_, _)
CeilLog2(n, d) == IF Pow2(d) >= n THEN d ELSE CeilLog2(n, d + 1)

extraDepth(colorCount) == CeilLog2(colorCount * 4, 0)

Max3(c) == Max2(c[1], Max2(c[2], c[3]))
Min3(c) == Min2(c[1], Min2(c[2], c[3]))

\* getSatBright(b) - getSatBright(a) < 0: a sorts before b; NaN compares as 0.
\* With M = max and m = min of a colour, 2550 * getSatBright = 1785 * (M - m) / M + 3 * M
\* for M > 0 and 0 for M = 0; the comparison is cross-multiplied.
VividBefore(a, b) ==
    /\ ~IsNaNColor(a)
    /\ ~IsNaNColor(b)
    /\ Max3(a) > 0
    /\ \/ Max3(b) = 0
       \/ 1785 * ((Max3(a) - Min3(a)) * Max3(b) - (Max3(b) - Min3(b)) * Max3(a))
             > 3 * (Max3(b) - Max3(a)) * Max3(a) * Max3(b)

RemoveAt(arr, i) == SubSeq(arr, 1, i - 1) \o SubSeq(arr, i + 1, Len(arr))

\* Every order of the elements of arr
RECURSIVE Arrangements(_)
Arrangements(arr) ==
    IF arr = <<>> THEN {<<>>}
    ELSE {SubSeq(rest, 1, at) \o <<Head(arr)>> \o SubSeq(rest, at + 1, Len(rest)) :
             rest \in Arrangements(Tail(arr)), at \in 0..(Len(arr) - 1)}

\* Array.prototype.sort with a comparator under which a precedes b iff
\* Before(a, b) and NaN keys compare as equal to everything: a stable sort
\* when the comparator is consistent, an implementation-defined order of the
\* same elements when it is not.
SortOutcomes(arr, Before(_, _), HasNaNKey(_)) ==
    LET elems == {arr[i] : i \in 1..Len(arr)}
        numeric == {x \in elems : ~HasNaNKey(x)}
        consistent ==
            \/ numeric = elems
            \/ \A x \in numeric, y \in numeric : ~Before(x, y)
        Rank(x) == Cardinality({y \in numeric : Before(y, x)})
    IN  IF ~consistent THEN Arrangements(arr)
        ELSE IF numeric = elems THEN {StableSortByKey(arr, Rank)}
        ELSE {arr}

\* The greedy selection loops; selected holds indices of candidateColors
RECURSIVE GreedyPass(_, _, _, _, _, _)
GreedyPass(candidateColors, i, selected, colorCount, limit, skipSelected) ==
    IF i > Len(candidateColors) \/ Len(selected) >= colorCount THEN selected
    ELSE IF skipSelected /\ \E k \in 1..Len(selected) : selected[k] = i
         THEN GreedyPass(candidateColors, i + 1, selected, colorCount, limit, skipSelected)
    ELSE IF \E k \in 1..Len(selected) :
                DistanceBelow(candidateColors[i], candidateColors[selected[k]], limit)
         THEN GreedyPass(candidateColors, i + 1, selected, colorCount, limit, skipSelected)
    ELSE GreedyPass(candidateColors, i + 1, Append(selected, i), colorCount, limit, skipSelected)

minDistance == 60

\* The indices selected by the first greedy loop
FirstPass(candidateColors, colorCount) ==
    GreedyPass(candidateColors, 1, <<>>, colorCount, minDistance, FALSE)

selectedColors(candidateColors, colorCount) ==
    LET first == FirstPass(candidateColors, colorCount)
        second == IF Len(first) < colorCount
                  THEN GreedyPass(candidateColors, 1, first, colorCount, minDistance \div 2, TRUE)
                  ELSE first
    IN  [k \in 1..Len(second) |-> candidateColors[second[k]]]

\* n.toString(16).padStart(2, '0')
toHex(n) ==
    IF n = NaN THEN <<"N", "a", "N">>
    ELSE <<LowerDigits[(n \div 16) + 1], LowerDigits[(n % 16) + 1]>>

ColorToHex(c) == <<"#">> \o toHex(c[1]) \o toHex(c[2]) \o toHex(c[3])

\* parseInt(str, 16): the value of the longest prefix of hex digits, NaN if empty
RECURSIVE ParsePrefix16(_, _, _)
ParsePrefix16(str, i, acc) ==
    IF i > Len(str) \/ ~IsHexDigit(str[i]) THEN (IF i = 1 THEN NaN ELSE acc)
    ELSE ParsePrefix16(str, i + 1, 16 * acc + DigitValue(str[i]))

\* hex.slice(from, to)
SliceOf(str, from, to) == SubSeq(str, from + 1, Min2(Len(str), to))

\* getLum(hex) in thousandths; NaN when a channel parses to NaN
getLum(hexColor) ==
    LET r0 == ParsePrefix16(SliceOf(hexColor, 1, 3), 1, 0)
        g0 == ParsePrefix16(SliceOf(hexColor, 3, 5), 1, 0)
        b0 == ParsePrefix16(SliceOf(hexColor, 5, 7), 1, 0)
    IN  IF r0 = NaN \/ g0 = NaN \/ b0 = NaN THEN NaN
        ELSE 299 * r0 + 587 * g0 + 114 * b0

HasNaNLum(hexColor) == getLum(hexColor) = NaN

DarkerBefore(a, b) == ~HasNaNLum(a) /\ ~HasNaNLum(b) /\ getLum(a) < getLum(b)

\* The runs of extractColorsFromImage(img, colorCount) on a sampling canvas
\* that holds the pixels of img: the pixels kept, the number of colours the
\* first greedy loop selected, the colours selected, the array returned
ExtractionRuns(img, colorCount) ==
    LET pxs == VisiblePixels(img.data)
    IN  IF Len(pxs) = 0
        THEN {[pixels |-> pxs, first |-> 0, selected |-> <<>>, hexColors |-> DEFAULT_PALETTE]}
        ELSE UNION {
               LET chosen == selectedColors(candidateColors, colorCount)
                   unsorted == [k \in 1..Len(chosen) |-> ColorToHex(chosen[k])]
               IN  {[pixels |-> pxs,
                     first |-> Len(FirstPass(candidateColors, colorCount)),
                     selected |-> chosen,
                     hexColors |-> sorted] :
                       sorted \in SortOutcomes(unsorted, DarkerBefore, HasNaNLum)} :
               candidateColors \in
                   SortOutcomes(medianCut(pxs, extraDepth(colorCount)), VividBefore, IsNaNColor)}

\* The arrays extractColorsFromImage(img, colorCount) can return
extractColorsFromImage(img, colorCount) ==
    {run.hexColors : run \in ExtractionRuns(img, colorCount)}

(* The DitherTool component: palette handlers and effects *)

\* Inputs of the model
TransparentImage == [width |-> 1, height |-> 1, data |-> << <<0, 0, 0, 0>> >>]
RedImage == [width |-> 1, height |-> 1, data |-> << <<255, 0, 0, 255>> >>]
RedBlueImage ==
    [width |-> 2, height |-> 1, data |-> << <<255, 0, 0, 255>>, <<0, 0, 255, 255>> >>]

Images == {TransparentImage, RedImage, RedBlueImage}

\* localStorage: nothing stored, or one preset without a valid colour and one
\* with a valid colour, an invalid one and a colour count below the range
StoredPresetLists ==
    { <<>>,
      << [palette |-> << <<"#", "1", "2">> >>,
          pixelSize |-> 55, algorithm |-> "ordered", paletteMode |-> "luminance",
          useImagePalette |-> FALSE, paletteColorCount |-> 5, frameDelay |-> 300],
         [palette |-> << HexString("0", "0", "0", "0", "0", "0"), <<"r", "e", "d">> >>,
          pixelSize |-> 250, algorithm |-> "bayer", paletteMode |-> "rainbow",
          useImagePalette |-> TRUE, paletteColorCount |-> 1, frameDelay |-> NotNumber] >> }

\* A preset file to import: one preset with settings outside their ranges
ImportedPresetLists ==
    { << [palette |-> << HexString("0", "0", "f", "f", "0", "0") >>,
          pixelSize |-> 5, algorithm |-> "ordered", paletteMode |-> "gradient-vertical",
          useImagePalette |-> FALSE, paletteColorCount |-> 99, frameDelay |-> 5000] >> }

\* window.location.search: no parameter; values that fail the checks
\* (palette "zz,#12"); values that pass them (palette "#FF0000,00ff00x")
UrlQueries ==
    { [palette |-> <<>>, pixelSize |-> <<>>, algorithm |-> "", paletteMode |-> "",
       frameDelay |-> <<>>],
      [palette |-> <<"z", "z", ",", "#", "1", "2">>, pixelSize |-> <<"5">>,
       algorithm |-> "bayer", paletteMode |-> "rainbow",
       frameDelay |-> <<"f", "a", "s", "t">>],
      [palette |-> <<"#", "F", "F", "0", "0", "0", "0", ",", "0", "0", "f", "f", "0", "0", "x">>,
       pixelSize |-> <<"2", "5", "p", "x">>, algorithm |-> "ordered",
       paletteMode |-> "gradient-horizontal", frameDelay |-> <<"2", "0", "0", "0">>] }

\* Positions of the pixel-size and frame-delay sliders
SliderPixelSizes == {10, 100}
SliderFrameDelays == {100, 2000}

\* What <input type="color"> reports, and what can be typed into a text field
PickerColors == {HexString("f", "f", "0", "0", "0", "0")}
TextInputs == {<<"#", "1", "2">>, <<"0", "0", "F", "F", "0", "0">>}

\* The options of the colour-count select
ColorCountOptions == {2, 3, 4, 5, 6, 8, 10, 12, 16}

PresetLimit == 50

\* The useState initial values
InitialState ==
    /\ uiPalette = DEFAULT_PALETTE
    /\ uiNewColor = HexString("0", "0", "0", "0", "0", "0")
    /\ editingIndex = Null
    /\ dragIndex = Null
    /\ sourceImage = NoImage
    /\ useImagePalette = FALSE
    /\ paletteColorCount = 5
    /\ userPresets = <<>>
    /\ processCalls = <<>>
    /\ processSizes = <<>>
    /\ uiEvents = 0
    /\ uiPixelSize = 40
    /\ debouncedPixelSize = 40
    /\ uiAlgorithm = "floyd-steinberg"
    /\ uiPaletteMode = "nearest"
    /\ frameDelay = 500
    /\ NoFrames

\* State after construction: the first render, before the mount effects
InitUI ==
    /\ DitherIdle
    /\ HexIdle
    /\ ProcessIdle
    /\ ExtractIdle
    /\ InitialState
    /\ uiPc = "mounting"

\* The pixelSize arguments of the processImage calls calls, all of which
\* receive the debounced pixel size size of the render they belong to
RECURSIVE SizeOfEach(_, _)
SizeOfEach(calls, size) ==
    IF calls = <<>> THEN <<>> ELSE <<size>> \o SizeOfEach(Tail(calls), size)


\* extractColorsFromImage for the images and the counts of the colour-count
\* select, computed once
ExtractionTable ==
    {<<img, cnt, extractColorsFromImage(img, cnt)>> : img \in Images, cnt \in ColorCountOptions}

\* extractColorsFromImage(img, cnt), looked up where tabulated
ExtractedColors(img, cnt) ==
    IF img \in Images /\ cnt \in ColorCountOptions
    THEN (CHOOSE entry \in ExtractionTable : entry[1] = img /\ entry[2] = cnt)[3]
    ELSE extractColorsFromImage(img, cnt)

\* The render that follows an event whose handler left the palette pal, the
\* image img, the toggle use, the count cnt and the debounced pixel size
\* size.  The extraction effect runs when one of its dependencies changed
\* and sets the palette; the processing effect runs with the palette of each
\* render whose palette or image changed and passes it, with the debounced
\* pixel size, to processImage.
RenderAt(size, pal, img, use, cnt, extractionDeps, imageChanged) ==
    LET firstCall == IF img # NoImage /\ (imageChanged \/ pal # uiPalette)
                     THEN <<pal>> ELSE <<>>
    IN  IF extractionDeps /\ use /\ img # NoImage
        THEN \E extractedColors \in ExtractedColors(img, cnt) :
                \E calls \in {firstCall \o
                      (IF extractedColors # pal THEN <<extractedColors>> ELSE <<>>)} :
                   /\ uiPalette' = extractedColors
                   /\ processCalls' = calls
                   /\ processSizes' = SizeOfEach(calls, size)
        ELSE /\ uiPalette' = pal
             /\ processCalls' = firstCall
             /\ processSizes' = SizeOfEach(firstCall, size)

\* The render that follows an event that left the debounced pixel size alone
Render(pal, img, use, cnt, extractionDeps, imageChanged) ==
    RenderAt(debouncedPixelSize, pal, img, use, cnt, extractionDeps, imageChanged)

\* An event is handled while the component is mounted
Handling ==
    /\ uiPc = "ready"
    /\ uiEvents < MaxUIEvents
    /\ uiEvents' = uiEvents + 1
    /\ UNCHANGED <<uiPc, ditherVars, hexVars, processVars, extractVars, gifVars>>

\* A click or a keystroke: not while a swatch is being dragged
UserInput == Handling /\ dragIndex = Null /\ timelineDragIndex = Null

IsDecimalDigit(ch) == \E k \in 1..10 : ch = LowerDigits[k]

\* parseInt(str, 10) of a string without a sign or leading white space
RECURSIVE ParsePrefix10(_, _, _)
ParsePrefix10(str, i, acc) ==
    IF i > Len(str) \/ ~IsDecimalDigit(str[i]) THEN (IF i = 1 THEN NaN ELSE acc)
    ELSE ParsePrefix10(str, i + 1, 10 * acc + DigitValue(str[i]))

\* The same without the range test
UrlNumberUnchecked(param, lo, hi, current) ==
    LET parsed == ParsePrefix10(param, 1, 0)
    IN  IF param # <<>> /\ parsed # NaN THEN parsed ELSE current

\* The value of a numeric setting after the URL-parameter effect: the
\* parameter when it is present, parses and lies in lo..hi
UrlNumber(param, lo, hi, current) ==
    LET parsed == ParsePrefix10(param, 1, 0)
    IN  IF param # <<>> /\ parsed # NaN /\ parsed >= lo /\ parsed <= hi
        THEN parsed ELSE current

\* The two mount effects: presets from localStorage, then the URL parameters
Mount ==
    /\ uiPc = "mounting"
    /\ uiPc' = "ready"
    /\ \E parsed \in StoredPresetLists : userPresets' = StoredPresets(parsed)
    /\ \E query \in UrlQueries :
          /\ Render(UrlPalette(query.palette, uiPalette), sourceImage, useImagePalette,
                    paletteColorCount, FALSE, FALSE)
          /\ uiPixelSize' = UrlNumber(query.pixelSize, MinPixelSize, MaxPixelSize, uiPixelSize)
          /\ uiAlgorithm' = IF query.algorithm \in Algorithms THEN query.algorithm
                            ELSE uiAlgorithm
          /\ uiPaletteMode' = IF query.paletteMode \in Modes THEN query.paletteMode
                              ELSE uiPaletteMode
          /\ frameDelay' = UrlNumber(query.frameDelay, MinFrameDelay, MaxFrameDelay, frameDelay)
    /\ UNCHANGED <<uiNewColor, editingIndex, dragIndex, sourceImage, useImagePalette,
                   paletteColorCount, uiEvents, debouncedPixelSize>>
    /\ UNCHANGED <<ditherVars, hexVars, processVars, extractVars, gifVars>>

\* img.onload of loadImage / loadImageFromUrl
ImageLoaded ==
    /\ Handling
    /\ \E img \in Images :
          /\ sourceImage' = img
          /\ Render(uiPalette, img, useImagePalette, paletteColorCount, TRUE, TRUE)
    /\ UNCHANGED <<uiNewColor, editingIndex, dragIndex, useImagePalette, paletteColorCount,
                   userPresets>>
    /\ UNCHANGED settingsVars

\* The "Extract from image" checkbox, disabled without an image
ToggleImagePalette ==
    /\ UserInput
    /\ sourceImage # NoImage
    /\ useImagePalette' = ~useImagePalette
    /\ Render(uiPalette, sourceImage, ~useImagePalette, paletteColorCount, TRUE, FALSE)
    /\ UNCHANGED <<uiNewColor, editingIndex, dragIndex, sourceImage, paletteColorCount,
                   userPresets>>
    /\ UNCHANGED settingsVars

\* The colour-count select, shown while extracting
SelectColorCount ==
    /\ UserInput
    /\ useImagePalette
    /\ \E n \in ColorCountOptions :
          /\ paletteColorCount' = n
          /\ Render(uiPalette, sourceImage, useImagePalette, n, n # paletteColorCount, FALSE)
    /\ UNCHANGED <<uiNewColor, editingIndex, dragIndex, sourceImage, useImagePalette,
                   userPresets>>
    /\ UNCHANGED settingsVars

\* A built-in preset button, shown while not extracting
SelectPreset ==
    /\ UserInput
    /\ ~useImagePalette
    /\ \E k \in 1..Len(PRESET_PALETTES) :
          Render(PRESET_PALETTES[k], sourceImage, useImagePalette, paletteColorCount,
                 FALSE, FALSE)
    /\ UNCHANGED <<uiNewColor, editingIndex, dragIndex, sourceImage, useImagePalette,
                   paletteColorCount, userPresets>>
    /\ UNCHANGED settingsVars

\* A click on a swatch
ClickSwatch ==
    /\ UserInput
    /\ \E index \in 0..(Len(uiPalette) - 1) :
          editingIndex' = IF editingIndex = index THEN Null ELSE index
    /\ Render(uiPalette, sourceImage, useImagePalette, paletteColorCount, FALSE, FALSE)
    /\ UNCHANGED <<uiNewColor, dragIndex, sourceImage, useImagePalette, paletteColorCount,
                   userPresets>>
    /\ UNCHANGED settingsVars

\* The "Done" button of the edit panel
DoneEditing ==
    /\ UserInput
    /\ editingIndex # Null
    /\ editingIndex' = Null
    /\ Render(uiPalette, sourceImage, useImagePalette, paletteColorCount, FALSE, FALSE)
    /\ UNCHANGED <<uiNewColor, dragIndex, sourceImage, useImagePalette, paletteColorCount,
                   userPresets>>
    /\ UNCHANGED settingsVars

addColor(pal, color) ==
    IF \E i \in 1..Len(pal) : pal[i] = color THEN pal ELSE Append(pal, color)

\* palette.filter((_, i) => i !== index) under the test palette.length > 1
removeColor(pal, index) ==
    IF Len(pal) > 1 /\ index >= 0 /\ index < Len(pal) THEN RemoveAt(pal, index + 1) ELSE pal

updateColor(pal, index, newColorValue) ==
    [i \in 1..Len(pal) |-> IF i - 1 = index THEN newColorValue ELSE pal[i]]

\* The colour picker or the text field of the edit panel
UpdateColor ==
    /\ UserInput
    /\ editingIndex # Null
    /\ \E value \in PickerColors \cup TextInputs :
          Render(updateColor(uiPalette, editingIndex, value), sourceImage, useImagePalette,
                 paletteColorCount, FALSE, FALSE)
    /\ UNCHANGED <<uiNewColor, editingIndex, dragIndex, sourceImage, useImagePalette,
                   paletteColorCount, userPresets>>
    /\ UNCHANGED settingsVars

\* The "Remove" button of the edit panel, disabled when palette.length <= 1
RemoveColor ==
    /\ UserInput
    /\ editingIndex # Null
    /\ ~(Len(uiPalette) <= 1)
    /\ Render(removeColor(uiPalette, editingIndex), sourceImage, useImagePalette,
              paletteColorCount, FALSE, FALSE)
    /\ editingIndex' = IF Len(uiPalette) > 1 THEN Null ELSE editingIndex
    /\ UNCHANGED <<uiNewColor, dragIndex, sourceImage, useImagePalette, paletteColorCount,
                   userPresets>>
    /\ UNCHANGED settingsVars

\* The colour picker or the text field of the add-colour row
SetNewColor ==
    /\ UserInput
    /\ \E value \in PickerColors \cup TextInputs : uiNewColor' = value
    /\ Render(uiPalette, sourceImage, useImagePalette, paletteColorCount, FALSE, FALSE)
    /\ UNCHANGED <<editingIndex, dragIndex, sourceImage, useImagePalette, paletteColorCount,
                   userPresets>>
    /\ UNCHANGED settingsVars

\* The "Add" button
AddColor ==
    /\ UserInput
    /\ Render(addColor(uiPalette, uiNewColor), sourceImage, useImagePalette,
              paletteColorCount, FALSE, FALSE)
    /\ UNCHANGED <<uiNewColor, editingIndex, dragIndex, sourceImage, useImagePalette,
                   paletteColorCount, userPresets>>
    /\ UNCHANGED settingsVars

\* handleDragStart
DragStart ==
    /\ UserInput
    /\ \E index \in 0..(Len(uiPalette) - 1) : dragIndex' = index
    /\ Render(uiPalette, sourceImage, useImagePalette, paletteColorCount, FALSE, FALSE)
    /\ UNCHANGED <<uiNewColor, editingIndex, sourceImage, useImagePalette, paletteColorCount,
                   userPresets>>
    /\ UNCHANGED settingsVars

\* arr.splice(index, 1) and its removed element
SpliceOut(arr, index) ==
    IF index < Len(arr) THEN RemoveAt(arr, index + 1) ELSE arr

SplicedOut(arr, index) == IF index < Len(arr) THEN arr[index + 1] ELSE UndefinedEntry

\* arr.splice(index, 0, item)
SpliceIn(arr, index, item) ==
    LET at == Min2(index, Len(arr))
    IN  SubSeq(arr, 1, at) \o <<item>> \o SubSeq(arr, at + 1, Len(arr))

\* handlePaletteDrop on the swatch dropIndex
PaletteDrop ==
    /\ Handling
    /\ \E dropIndex \in 0..(Len(uiPalette) - 1) :
          Render(IF dragIndex # Null /\ dragIndex # dropIndex
                 THEN SpliceIn(SpliceOut(uiPalette, dragIndex), dropIndex,
                               SplicedOut(uiPalette, dragIndex))
                 ELSE uiPalette,
                 sourceImage, useImagePalette, paletteColorCount, FALSE, FALSE)
    /\ dragIndex' = Null
    /\ UNCHANGED <<uiNewColor, editingIndex, sourceImage, useImagePalette, paletteColorCount,
                   userPresets>>
    /\ UNCHANGED settingsVars

\* handleDragEnd
DragEnd ==
    /\ Handling
    /\ dragIndex # Null
    /\ dragIndex' = Null
    /\ Render(uiPalette, sourceImage, useImagePalette, paletteColorCount, FALSE, FALSE)
    /\ UNCHANGED <<uiNewColor, editingIndex, sourceImage, useImagePalette, paletteColorCount,
                   userPresets>>
    /\ UNCHANGED settingsVars

\* saveUserPreset with a name that is not blank
SaveUserPreset ==
    /\ UserInput
    /\ userPresets' =
          IF Len(userPresets) >= PresetLimit THEN userPresets
          ELSE Append(userPresets, [palette |-> uiPalette,
                                    pixelSize |-> uiPixelSize,
                                    algorithm |-> uiAlgorithm,
                                    paletteMode |-> uiPaletteMode,
                                    useImagePalette |-> useImagePalette,
                                    paletteColorCount |-> paletteColorCount,
                                    frameDelay |-> frameDelay])
    /\ Render(uiPalette, sourceImage, useImagePalette, paletteColorCount, FALSE, FALSE)
    /\ UNCHANGED <<uiNewColor, editingIndex, dragIndex, sourceImage, useImagePalette,
                   paletteColorCount>>
    /\ UNCHANGED settingsVars

\* The value of a numeric setting after loadUserPreset: the preset's when it
\* is a number in lo..hi
ValidOr(v, lo, hi, current) ==
    IF v # NotNumber /\ v >= lo /\ v <= hi THEN v ELSE current

\* loadUserPreset
LoadUserPreset ==
    /\ UserInput
    /\ \E k \in 1..Len(userPresets) :
          LET settings == userPresets[k]
              validColors == ValidColors(settings.palette)
              count == ValidOr(settings.paletteColorCount, MinColorCount, MaxColorCount,
                               paletteColorCount)
              mode == IF settings.paletteMode \in Modes THEN settings.paletteMode
                      ELSE uiPaletteMode
              algo == IF settings.algorithm \in Algorithms THEN settings.algorithm
                      ELSE uiAlgorithm
          IN  /\ useImagePalette' = settings.useImagePalette
              /\ paletteColorCount' = count
              /\ uiPixelSize' = ValidOr(settings.pixelSize, MinPixelSize, MaxPixelSize,
                                        uiPixelSize)
              /\ uiAlgorithm' = algo
              /\ uiPaletteMode' = mode
              /\ frameDelay' = ValidOr(settings.frameDelay, MinFrameDelay, MaxFrameDelay,
                                       frameDelay)
              /\ Render(IF Len(validColors) > 0 THEN validColors ELSE uiPalette,
                        sourceImage, settings.useImagePalette, count,
                        settings.useImagePalette # useImagePalette \/ count # paletteColorCount,
                        algo # uiAlgorithm \/ mode # uiPaletteMode)
    /\ UNCHANGED <<uiNewColor, editingIndex, dragIndex, sourceImage, userPresets,
                   debouncedPixelSize>>

\* importUserPresets followed by reader.onload
ImportUserPresets ==
    /\ UserInput
    /\ \E parsed \in ImportedPresetLists :
          userPresets' =
             IF Len(StoredPresets(parsed)) = 0 THEN userPresets
             ELSE Slice0(userPresets \o StoredPresets(parsed), PresetLimit)
    /\ Render(uiPalette, sourceImage, useImagePalette, paletteColorCount, FALSE, FALSE)
    /\ UNCHANGED <<uiNewColor, editingIndex, dragIndex, sourceImage, useImagePalette,
                   paletteColorCount>>
    /\ UNCHANGED settingsVars

\* deleteUserPreset(preset.id) of the k-th preset, ids being distinct
DeleteUserPreset ==
    /\ UserInput
    /\ \E k \in 1..Len(userPresets) :
          userPresets' = SubSeq(userPresets, 1, k - 1) \o
                         SubSeq(userPresets, k + 1, Len(userPresets))
    /\ Render(uiPalette, sourceImage, useImagePalette, paletteColorCount, FALSE, FALSE)
    /\ UNCHANGED <<uiNewColor, editingIndex, dragIndex, sourceImage, useImagePalette,
                   paletteColorCount>>
    /\ UNCHANGED settingsVars

\* SetPixelSize without the debounce: the new value is processed at once
SetPixelSizeUndebounced ==
    /\ UserInput
    /\ \E value \in SliderPixelSizes :
          /\ uiPixelSize' = value
          /\ debouncedPixelSize' = value
          /\ RenderAt(value, uiPalette, sourceImage, useImagePalette, paletteColorCount,
                      FALSE, value # debouncedPixelSize)
    /\ UNCHANGED <<uiNewColor, editingIndex, dragIndex, sourceImage, useImagePalette,
                   paletteColorCount, userPresets>>
    /\ UNCHANGED <<uiAlgorithm, uiPaletteMode, frameDelay>>

\* The pixel-size slider
SetPixelSize ==
    /\ UserInput
    /\ \E value \in SliderPixelSizes : uiPixelSize' = value
    /\ Render(uiPalette, sourceImage, useImagePalette, paletteColorCount, FALSE, FALSE)
    /\ UNCHANGED <<uiNewColor, editingIndex, dragIndex, sourceImage, useImagePalette,
                   paletteColorCount, userPresets>>
    /\ UNCHANGED <<debouncedPixelSize, uiAlgorithm, uiPaletteMode, frameDelay>>

\* The timer of useDebounce fires, 150 ms after the last change of pixelSize
DebounceElapsed ==
    /\ uiPc = "ready"
    /\ debouncedPixelSize # uiPixelSize
    /\ debouncedPixelSize' = uiPixelSize
    /\ RenderAt(uiPixelSize, uiPalette, sourceImage, useImagePalette, paletteColorCount,
                FALSE, TRUE)
    /\ UNCHANGED <<uiNewColor, editingIndex, dragIndex, sourceImage, useImagePalette,
                   paletteColorCount, userPresets, uiEvents, uiPc>>
    /\ UNCHANGED <<uiPixelSize, uiAlgorithm, uiPaletteMode, frameDelay>>
    /\ UNCHANGED <<ditherVars, hexVars, processVars, extractVars, gifVars>>

\* The two algorithm buttons
SetAlgorithm ==
    /\ UserInput
    /\ \E value \in Algorithms :
          /\ uiAlgorithm' = value
          /\ Render(uiPalette, sourceImage, useImagePalette, paletteColorCount, FALSE,
                    value # uiAlgorithm)
    /\ UNCHANGED <<uiNewColor, editingIndex, dragIndex, sourceImage, useImagePalette,
                   paletteColorCount, userPresets>>
    /\ UNCHANGED <<uiPixelSize, debouncedPixelSize, uiPaletteMode, frameDelay>>

\* The palette-mode select
SetPaletteMode ==
    /\ UserInput
    /\ \E value \in Modes :
          /\ uiPaletteMode' = value
          /\ Render(uiPalette, sourceImage, useImagePalette, paletteColorCount, FALSE,
                    value # uiPaletteMode)
    /\ UNCHANGED <<uiNewColor, editingIndex, dragIndex, sourceImage, useImagePalette,
                   paletteColorCount, userPresets>>
    /\ UNCHANGED <<uiPixelSize, debouncedPixelSize, uiAlgorithm, frameDelay>>

\* The frame-delay slider
SetFrameDelay ==
    /\ UserInput
    /\ \E value \in SliderFrameDelays : frameDelay' = value
    /\ Render(uiPalette, sourceImage, useImagePalette, paletteColorCount, FALSE, FALSE)
    /\ UNCHANGED <<uiNewColor, editingIndex, dragIndex, sourceImage, useImagePalette,
                   paletteColorCount, userPresets>>
    /\ UNCHANGED <<uiPixelSize, debouncedPixelSize, uiAlgorithm, uiPaletteMode>>

NextUI ==
    \/ Mount
    \/ ImageLoaded
    \/ ToggleImagePalette
    \/ SelectColorCount
    \/ SelectPreset
    \/ ClickSwatch
    \/ DoneEditing
    \/ UpdateColor
    \/ RemoveColor
    \/ SetNewColor
    \/ AddColor
    \/ DragStart
    \/ PaletteDrop
    \/ DragEnd
    \/ SaveUserPreset
    \/ LoadUserPreset

SpecUI == InitUI /\ [][NextUI]_vars

\* The handlers and effects that write a setting or a preset
NextSettings ==
    \/ Mount
    \/ SelectColorCount
    \/ SaveUserPreset
    \/ LoadUserPreset
    \/ ImportUserPresets
    \/ SetPixelSize
    \/ DebounceElapsed
    \/ SetAlgorithm
    \/ SetPaletteMode
    \/ SetFrameDelay

SpecSettings == InitUI /\ [][NextSettings]_vars

(* The DitherTool component: GIF timeline *)

\* A timeline event is handled while the component is mounted; the
\* processing effect does not run
TimelineEvent ==
    /\ uiPc = "ready"
    /\ gifEvents < MaxGifEvents
    /\ gifEvents' = gifEvents + 1
    /\ processCalls' = <<>>
    /\ processSizes' = <<>>
    /\ UNCHANGED <<uiPalette, uiNewColor, editingIndex, dragIndex, sourceImage,
                   useImagePalette, paletteColorCount, userPresets, uiEvents, uiPc>>
    /\ UNCHANGED <<settingsVars, ditherVars, hexVars, processVars, extractVars>>

\* A click: not while something is being dragged
TimelineInput == TimelineEvent /\ dragIndex = Null /\ timelineDragIndex = Null

\* captureFrame by the "Capture frame" button, disabled without an image.
\* The preview canvas has the size of the source image since the last
\* processing effect; Date.now() is the millisecond of the previous capture
\* or a later one.
CaptureFrame ==
    /\ TimelineInput
    /\ sourceImage # NoImage
    /\ \E t \in {now, now + 1} :
          /\ now' = t
          /\ frames' = Append(frames, [id |-> t, width |-> sourceImage.width,
                                       height |-> sourceImage.height])
    /\ UNCHANGED <<timelineDragIndex, isGeneratingGif, gifCalls, gifSize, gifFrames,
                   gifPending, gifProgress, gifCompletions>>

\* prev.filter((f) => f.id !== id)
removeFrame(prev, id) == SelectSeq(prev, LAMBDA f : f.id # id)

\* The remove button of a timeline item
RemoveFrame ==
    /\ TimelineInput
    /\ \E k \in 1..Len(frames) : frames' = removeFrame(frames, frames[k].id)
    /\ UNCHANGED <<timelineDragIndex, now, isGeneratingGif, gifCalls, gifSize, gifFrames,
                   gifPending, gifProgress, gifCompletions>>

\* The "Clear all" button, disabled without frames
ClearFrames ==
    /\ TimelineInput
    /\ ~(Len(frames) = 0)
    /\ frames' = <<>>
    /\ UNCHANGED <<timelineDragIndex, now, isGeneratingGif, gifCalls, gifSize, gifFrames,
                   gifPending, gifProgress, gifCompletions>>

\* handleTimelineDragStart
TimelineDragStart ==
    /\ TimelineInput
    /\ \E index \in 0..(Len(frames) - 1) : timelineDragIndex' = index
    /\ UNCHANGED <<frames, now, isGeneratingGif, gifCalls, gifSize, gifFrames,
                   gifPending, gifProgress, gifCompletions>>

\* handleTimelineDrop on the timeline item dropIndex
TimelineDrop ==
    /\ TimelineEvent
    /\ \E dropIndex \in 0..(Len(frames) - 1) :
          frames' = IF timelineDragIndex # Null /\ timelineDragIndex # dropIndex
                    THEN SpliceIn(SpliceOut(frames, timelineDragIndex), dropIndex,
                                  SplicedOut(frames, timelineDragIndex))
                    ELSE frames
    /\ timelineDragIndex' = Null
    /\ UNCHANGED <<now, isGeneratingGif, gifCalls, gifSize, gifFrames,
                   gifPending, gifProgress, gifCompletions>>

\* handleTimelineDragEnd
TimelineDragEnd ==
    /\ TimelineEvent
    /\ timelineDragIndex # Null
    /\ timelineDragIndex' = Null
    /\ UNCHANGED <<frames, now, isGeneratingGif, gifCalls, gifSize, gifFrames,
                   gifPending, gifProgress, gifCompletions>>

\* Math.round(p * 100) of the progress events
ProgressValues == {50, 100}

\* frames.forEach(frame => gif.addFrame(frame.canvas, {delay})), last first
AddedFramesReversed(frs, delay) ==
    [i \in 1..Len(frs) |-> [id |-> frs[Len(frs) + 1 - i].id,
                            width |-> frs[Len(frs) + 1 - i].width,
                            height |-> frs[Len(frs) + 1 - i].height, delay |-> delay]]

\* frames.forEach(frame => gif.addFrame(frame.canvas, {delay: frameDelay, copy: true}))
AddedFrames(frs, delay) ==
    [i \in 1..Len(frs) |-> [id |-> frs[i].id, width |-> frs[i].width,
                            height |-> frs[i].height, delay |-> delay]]

\* generateGif by the preview or the download button, both disabled with
\* fewer than two frames and while a GIF is being generated
GenerateGif ==
    /\ TimelineInput
    /\ ~(Len(frames) < 2 \/ isGeneratingGif)
    /\ IF Len(frames) < 2
       THEN UNCHANGED <<isGeneratingGif, gifCalls, gifSize, gifFrames,
                   gifPending, gifProgress, gifCompletions>>
       ELSE /\ isGeneratingGif' = TRUE
            /\ gifProgress' = 0
            /\ gifCalls' = gifCalls + 1
            /\ gifPending' = gifPending + 1
            /\ UNCHANGED gifCompletions
            /\ gifSize' = [width |-> frames[1].width, height |-> frames[1].height]
            /\ gifFrames' = AddedFrames(frames, frameDelay)
    /\ UNCHANGED <<frames, timelineDragIndex, now>>

\* The encoder's "progress" event: setGifProgress(Math.round(p * 100))
GifProgress ==
    /\ uiPc = "ready"
    /\ gifPending > 0
    /\ \E percent \in ProgressValues : gifProgress' = percent
    /\ UNCHANGED <<frames, timelineDragIndex, now, isGeneratingGif, gifCalls, gifSize,
                   gifFrames, gifEvents, gifPending, gifCompletions>>
    /\ UNCHANGED <<uiVars, settingsVars, ditherVars, hexVars, processVars, extractVars>>

\* The "finished" handler leaving isGeneratingGif as it is
GifFinishedKeepsFlag ==
    /\ uiPc = "ready"
    /\ gifPending > 0
    /\ gifPending' = gifPending - 1
    /\ gifProgress' = 0
    /\ gifCompletions' = gifCompletions + 1
    /\ UNCHANGED <<frames, timelineDragIndex, now, isGeneratingGif, gifCalls, gifSize,
                   gifFrames, gifEvents>>
    /\ UNCHANGED <<uiVars, settingsVars, ditherVars, hexVars, processVars, extractVars>>

\* The encoder's "finished" event, once per encoder
GifFinished ==
    /\ uiPc = "ready"
    /\ gifPending > 0
    /\ gifPending' = gifPending - 1
    /\ isGeneratingGif' = FALSE
    /\ gifProgress' = 0
    /\ gifCompletions' = gifCompletions + 1
    /\ UNCHANGED <<frames, timelineDragIndex, now, gifCalls, gifSize, gifFrames, gifEvents>>
    /\ UNCHANGED <<uiVars, settingsVars, ditherVars, hexVars, processVars, extractVars>>

\* The component mounted without URL parameters and with nothing stored
InitGif ==
    /\ DitherIdle
    /\ HexIdle
    /\ ProcessIdle
    /\ ExtractIdle
    /\ InitialState
    /\ uiPc = "ready"

NextGif ==
    \/ ImageLoaded
    \/ SetFrameDelay
    \/ CaptureFrame
    \/ RemoveFrame
    \/ ClearFrames
    \/ TimelineDragStart
    \/ TimelineDrop
    \/ TimelineDragEnd
    \/ GenerateGif
    \/ GifFinished

SpecGif == InitGif /\ [][NextGif]_vars

(* extractColorsFromImage, one call *)

\* One pixel at alpha 128 and one at alpha 129
AlphaImage ==
    [width |-> 2, height |-> 1, data |-> << <<255, 0, 0, 128>>, <<0, 0, 255, 129>> >>]

\* 1 x 151: Math.floor(1 * 150 / 151) = 0 is the width of the sampling canvas
ElongatedImage ==
    [width |-> 1, height |-> 151, data |-> [i \in 1..151 |-> <<255, 0, 0, 255>>]]

\* Eight opaque colours, one per median-cut bucket at colorCount 2
EightColorImage ==
    [width |-> 4, height |-> 2,
     data |-> << <<0, 0, 0, 255>>, <<255, 255, 255, 255>>, <<255, 0, 0, 255>>,
                 <<0, 255, 0, 255>>, <<0, 0, 255, 255>>, <<255, 255, 0, 255>>,
                 <<128, 128, 128, 255>>, <<100, 0, 0, 255>> >>]

\* Seven pixels of gray 100 and one of gray 115, at distance about 45
TwoGrayImage ==
    [width |-> 4, height |-> 2,
     data |-> [i \in 1..8 |-> IF i = 3 THEN <<115, 115, 115, 255>>
                                        ELSE <<100, 100, 100, 255>>]]

\* The calls of the model: every colour count for the images of up to two
\* pixels and for the elongated one, colorCount 2 for the images of eight
ExtractInputs ==
    ({TransparentImage, RedImage, RedBlueImage, AlphaImage, ElongatedImage}
        \X (MinColorCount..MaxColorCount))
    \cup {<<EightColorImage, MinColorCount>>, <<TwoGrayImage, MinColorCount>>}

InitExtract ==
    /\ DitherIdle
    /\ HexIdle
    /\ ProcessIdle
    /\ UIIdle
    /\ NoFrames
    /\ \E call \in ExtractInputs :
          /\ extractImg = call[1]
          /\ extractCount = call[2]
    /\ extractPixels = <<>>
    /\ extractFirst = 0
    /\ extractSelected = <<>>
    /\ extractResult = <<>>
    /\ extractPc = "called"
    /\ leafPixels = <<>> /\ leafResult = <<>>

\* The sampling canvas has no pixel
EmptySample(img) ==
    SampledDimension(img.width, img) = 0 \/ SampledDimension(img.height, img) = 0

\* ctx.getImageData(0, 0, canvas.width, canvas.height) throws IndexSizeError
\* when canvas.width or canvas.height is 0
ExtractThrows ==
    /\ extractPc = "called"
    /\ EmptySample(extractImg)
    /\ extractPc' = "threw"
    /\ UNCHANGED <<extractImg, extractCount, extractPixels, extractFirst, extractSelected,
                   extractResult, leafPixels, leafResult>>
    /\ UNCHANGED <<ditherVars, hexVars, processVars, uiVars, settingsVars, gifVars>>

\* The call runs to its return statement
ExtractReturns ==
    /\ extractPc = "called"
    /\ ~EmptySample(extractImg)
    /\ \E run \in ExtractionRuns(extractImg, extractCount) :
          /\ extractPixels' = run.pixels
          /\ extractFirst' = run.first
          /\ extractSelected' = run.selected
          /\ extractResult' = run.hexColors
    /\ extractPc' = "returned"
    /\ UNCHANGED <<extractImg, extractCount, leafPixels, leafResult>>
    /\ UNCHANGED <<ditherVars, hexVars, processVars, uiVars, settingsVars, gifVars>>

NextExtract ==
    \/ ExtractThrows
    \/ ExtractReturns

SpecExtract == InitExtract /\ [][NextExtract]_vars

(* Properties of the dither functions *)

Range(f) == {f[i] : i \in DOMAIN f}

Reorderings(seq) ==
    {[i \in 1..Len(seq) |-> seq[f[i]]] :
        f \in {g \in [1..Len(seq) -> 1..Len(seq)] : Range(g) = 1..Len(seq)}}

\* C1: with a non-empty palette, every cell either dither function has
\* written holds exactly one of the palette's colours, in all four palette
\* modes; so does every cell of the buffer once the function has returned.
C1_PaletteMembership ==
    Len(palette) >= 1 =>
        /\ status # "threw"
        /\ \A idx \in visited : data[idx + 1] \in Range(palette)
        /\ status = "done" => \A i \in 1..Len(data) : data[i] \in Range(palette)

C1_Witness ==
    /\ status = "done"
    /\ algorithm = "floyd-steinberg"
    /\ paletteMode = "gradient-horizontal"
    /\ width = 2 /\ height = 2
    /\ Len(palette) = 2
    /\ \E i \in 1..Len(data) : data[i] # input[i]
    /\ \E i \in 1..Len(data) : data[i] # data[1]

\* The rule of findNearestColor in nearest mode: the colour chosen for the
\* key colour is a palette entry at the minimal Euclidean distance from the
\* key, and the entry of lowest index among those.
NearestRuleHolds ==
    (paletteMode = "nearest" /\ Len(palette) >= 1 /\ IsColor(oldColor)) =>
        \E i \in 1..Len(palette) :
           /\ newColor = palette[i]
           /\ \A j \in 1..Len(palette) :
                 SqDistance(oldColor, palette[i]) <= SqDistance(oldColor, palette[j])
           /\ \A j \in 1..(i - 1) :
                 SqDistance(oldColor, palette[i]) < SqDistance(oldColor, palette[j])

\* The 1x1 #ff0000 buffer after floydSteinbergDither in nearest mode with
\* the palette [#000000, #ffffff]
RedPixelCase ==
    /\ status = "done" /\ algorithm = "floyd-steinberg" /\ paletteMode = "nearest"
    /\ width = 1 /\ height = 1 /\ input = <<Red>> /\ palette = <<Black, White>>

\* C2 (as stated): findNearestColor returns the entry of lowest index among
\* the palette entries at the minimal Euclidean distance from the key, and
\* the 1x1 #ff0000 buffer dithered by Floyd-Steinberg in nearest mode with
\* [#000000, #ffffff] becomes #ffffff.
C2_Original ==
    /\ NearestRuleHolds
    /\ RedPixelCase => data = <<White>>

\* C2 (amended): findNearestColor returns the entry of lowest index among
\* the palette entries at the minimal Euclidean distance from the key, and
\* the 1x1 #ff0000 buffer dithered by Floyd-Steinberg in nearest mode with
\* [#000000, #ffffff] becomes #000000: red is at distance 255 from black and
\* at sqrt(255^2 + 255^2), about 360.6, from white.
C2_NearestLowestIndex ==
    /\ NearestRuleHolds
    /\ RedPixelCase =>
          /\ data = <<Black>>
          /\ SqDistance(Red, Black) = 255 * 255
          /\ SqDistance(Red, White) = 2 * 255 * 255

\* a key colour (yellow) equally far from two distinct palette entries
C2_Witness ==
    /\ paletteMode = "nearest"
    /\ palette = <<White, Red>>
    /\ oldColor = Yellow
    /\ SqDistance(Yellow, White) = SqDistance(Yellow, Red)
    /\ newColor = White

\* C3: in nearest mode, dithering with any reordering of the palette gives
\* the same output buffer.
C3_OrderInsignificant ==
    (status = "done" /\ paletteMode = "nearest") =>
        \A q \in Reorderings(palette) :
            DitherRun(algorithm, input, width, height, q, paletteMode) = data

\* C6: under any order of processing the cells, every cell orderedDither has
\* processed holds what the raster scan of the unprocessed buffer puts there,
\* every other cell is untouched, and so the finished buffer equals the
\* raster scan's.
C6_OrderedNoRasterDependency ==
    Len(palette) >= 1 =>
        \A raster \in {OrderedRunFrom(input, 0, width, height, palette, paletteMode)} :
            /\ \A idx \in 0..(width * height - 1) :
                  data[idx + 1] = IF idx \in visited THEN raster[idx + 1]
                                  ELSE input[idx + 1]
            /\ status = "done" => data = raster

\* the last cell has been processed before the first
C6_Witness ==
    /\ algorithm = "ordered"
    /\ status = "running"
    /\ width * height >= 3
    /\ (width * height - 1) \in visited
    /\ 0 \notin visited
    /\ data[width * height] # input[width * height]

\* C8: with an empty palette neither dither function returns: in every
\* palette mode the first iteration throws, and when it does no cell of the
\* buffer has been written.
C8_EmptyPaletteThrows ==
    Len(palette) = 0 =>
        /\ status # "done"
        /\ data = input
        /\ visited = {}
        /\ status = "running" => ~IsColor(oldColor)

C8_Witness ==
    /\ Len(palette) = 0
    /\ status = "threw"
    /\ algorithm = "floyd-steinberg"
    /\ paletteMode = "gradient-horizontal"
    /\ IsColor(oldColor)
    /\ data = input

\* The 0-based position of colour c in a palette of distinct entries
IndexIn(pal, c) == (CHOOSE i \in 1..Len(pal) : pal[i] = c) - 1

HexDigitChars == Range(LowerDigits) \cup Range(UpperDigits)

\* An optional '#' followed by exactly six hexadecimal digits of either case
WellFormedHex(str) ==
    \/ Len(str) = 6 /\ \A i \in 1..6 : str[i] \in HexDigitChars
    \/ Len(str) = 7 /\ str[1] = "#" /\ \A i \in 2..7 : str[i] \in HexDigitChars

\* C7: hexToRgb returns the three parsed channel values for an optional '#'
\* followed by exactly six hexadecimal digits of either case, and
\* {r: 0, g: 0, b: 0} for every other string; it always returns a colour.
C7_HexToRgb ==
    hexResult # Undefined =>
        /\ IsColor(hexResult)
        /\ WellFormedHex(hex) =>
              \A body \in {IF Len(hex) = 7 THEN Tail(hex) ELSE hex} :
                 hexResult = RGB(16 * DigitValue(body[1]) + DigitValue(body[2]),
                                 16 * DigitValue(body[3]) + DigitValue(body[4]),
                                 16 * DigitValue(body[5]) + DigitValue(body[6]))
        /\ ~WellFormedHex(hex) => hexResult = RGB(0, 0, 0)

\* '#Fa99aF' parses to (250, 153, 175)
C7_Witness ==
    /\ hex = <<"#", "F", "a", "9", "9", "a", "F">>
    /\ hexResult = RGB(250, 153, 175)

\* max(1, round(dim * ps / 100)) in exact arithmetic, halves rounded up
ExactScaled(dim, ps) == Max2(1, (2 * dim * ps + 100) \div 200)

\* C5 (as stated): processImage dithers a grid of exactly
\* max(1, round(w*pixelSize/100)) by max(1, round(h*pixelSize/100)) cells,
\* both >= 1 and equal to w by h when pixelSize = 100, and returns an output
\* canvas of exactly w by h.
C5_Original ==
    /\ processPc \in {"dithered", "returned"} =>
          /\ width = ExactScaled(sourceWidth, pixelSize)
          /\ height = ExactScaled(sourceHeight, pixelSize)
          /\ width >= 1 /\ height >= 1
          /\ pixelSize = 100 => width = sourceWidth /\ height = sourceHeight
    /\ processPc = "returned" =>
          outputWidth = sourceWidth /\ outputHeight = sourceHeight

\* The dimension the code may give for a source dimension: the exact
\* max(1, round(dim*ps/100)), or one less when dim*ps/100 is exactly halfway
\* between two integers
ScaledAsComputed(got, dim, ps) ==
    \/ got = ExactScaled(dim, ps)
    \/ /\ (dim * ps) % 100 = 50
       /\ got = ExactScaled(dim, ps) - 1
       /\ got >= 1

\* C5 (amended): processImage dithers a grid of max(1, round(w*scale)) by
\* max(1, round(h*scale)) cells with scale = pixelSize/100 computed in
\* doubles: each dimension is max(1, round(d*pixelSize/100)), except that it
\* may be one less when d*pixelSize/100 is exactly halfway between two
\* integers; both are >= 1 and equal w by h when pixelSize = 100, and the
\* output canvas is exactly w by h.
C5_Dimensions ==
    /\ processPc \in {"dithered", "returned"} =>
          /\ ScaledAsComputed(width, sourceWidth, pixelSize)
          /\ ScaledAsComputed(height, sourceHeight, pixelSize)
          /\ width >= 1 /\ height >= 1
          /\ pixelSize = 100 => width = sourceWidth /\ height = sourceHeight
    /\ processPc = "returned" =>
          outputWidth = sourceWidth /\ outputHeight = sourceHeight

\* a 25-pixel-wide source at pixelSize 58: 25 * 0.58 is 14.499999999999998 in
\* doubles, so the grid is 14 wide, and the output is 25 wide again
C5_Witness ==
    /\ processPc = "returned"
    /\ sourceWidth = 25 /\ pixelSize = 58
    /\ width = 14
    /\ outputWidth = 25
    /\ sourceHeight = 1 /\ height = 1

(* Properties of the DitherTool palette *)

\* C9: in every reachable state of the component the palette has at least one
\* entry, and every palette passed to processImage has at least one entry.
C9_PaletteNonEmpty ==
    /\ Len(uiPalette) >= 1
    /\ \A k \in 1..Len(processCalls) : Len(processCalls[k]) >= 1

\* A one-entry palette has been passed to processImage, and the palette in
\* the state still has an entry.
C9_Witness ==
    /\ uiPc = "ready"
    /\ sourceImage # NoImage
    /\ Len(uiPalette) >= 1
    /\ \E k \in 1..Len(processCalls) : Len(processCalls[k]) = 1

\* C10: every entry of every palette passed to processImage is a well-formed
\* colour string of six hex digits (with or without the leading '#').
C10_WellFormedEntries ==
    \A k \in 1..Len(processCalls) :
        \A i \in 1..Len(processCalls[k]) : WellFormedHex(processCalls[k][i])


\* C11: in every state of the component pixelSize and its debounced copy
\* are in [10,100], algorithm is "floyd-steinberg" or "ordered", paletteMode
\* is one of the four modes, paletteColorCount is in [2,16] and frameDelay is
\* in [100,2000], whatever controls were changed, URL parameters parsed, and
\* presets stored, imported, saved or loaded.
C11_SettingsInRange ==
    uiPc # "idle" =>
        /\ uiPixelSize \in 10..100
        /\ debouncedPixelSize \in 10..100
        /\ uiAlgorithm \in {"floyd-steinberg", "ordered"}
        /\ uiPaletteMode \in {"nearest", "luminance", "gradient-horizontal",
                               "gradient-vertical"}
        /\ paletteColorCount \in 2..16
        /\ frameDelay \in 100..2000

\* the URL gave pixelSize 25, the timer copied it, and a stored preset whose
\* pixelSize 250 and colour count 1 were clamped was loaded afterwards
C11_Witness ==
    /\ uiPc = "ready"
    /\ debouncedPixelSize = 25
    /\ uiPixelSize = 100
    /\ paletteColorCount = 2
    /\ useImagePalette
    /\ frameDelay = 500
    /\ uiAlgorithm = "floyd-steinberg"


(* Properties of extractColorsFromImage *)

\* The sampled pixels of the call that pass alpha > 128
SampledVisible ==
    IF EmptySample(extractImg) THEN {}
    ELSE {i \in 1..Len(extractImg.data) : extractImg.data[i][4] > 128}

\* 0.299r + 0.587g + 0.114b of a well-formed entry, in thousandths
EntryLuminance(entry) ==
    299 * parseInt16(entry[2], entry[3]) + 587 * parseInt16(entry[4], entry[5])
        + 114 * parseInt16(entry[6], entry[7])

\* C12: for a source with at least one visible pixel and colorCount in
\* [2,16] the returned palette has between 1 and colorCount entries and is
\* sorted by luminance in non-decreasing order.
C12_SortedByLuminance ==
    (extractPc # "called" /\ SampledVisible # {} /\ extractCount \in 2..16) =>
        /\ extractPc = "returned"
        /\ Len(extractResult) \in 1..extractCount
        /\ \A i \in 1..Len(extractResult) : WellFormedHex(extractResult[i])
        /\ \A i \in 1..Len(extractResult), j \in 1..Len(extractResult) :
              i < j => EntryLuminance(extractResult[i]) <= EntryLuminance(extractResult[j])


\* The '#rrggbb' text of a sampled pixel
PixelHex(px) == ColorToHex(<<px[1], px[2], px[3]>>)

\* C13: for a source with at least one visible pixel, single-pixel sources
\* and sources with fewer visible pixels than median-cut buckets included,
\* every entry of the returned palette is a well-formed '#rrggbb' colour and
\* is the colour of one of the sampled visible pixels.
C13_EntriesAreSampledColors ==
    (extractPc # "called" /\ SampledVisible # {}) =>
        /\ extractPc = "returned"
        /\ \A i \in 1..Len(extractResult) :
              /\ Len(extractResult[i]) = 7
              /\ WellFormedHex(extractResult[i])
              /\ \E k \in SampledVisible :
                    extractResult[i] = PixelHex(extractImg.data[k])

\* colorDistance(c1, c2) >= limit; false when the distance is NaN
DistanceAtLeast(c1, c2, limit) ==
    /\ ~IsNaNColor(c1)
    /\ ~IsNaNColor(c2)
    /\ RedmeanSq(c1, c2) >= 512 * limit * limit

\* C14: the colours accepted in the first greedy pass are pairwise at
\* redmean distance >= 60, every colour the backfill pass added is at
\* distance >= 30 from every colour accepted before it, and so no two
\* entries of the returned palette are closer than 30 or equal.
C14_MinimumDistance ==
    (extractPc = "returned" /\ SampledVisible # {}) =>
        /\ \A i \in 1..extractFirst, j \in 1..extractFirst :
              i < j => DistanceAtLeast(extractSelected[i], extractSelected[j], 60)
        /\ \A j \in (extractFirst + 1)..Len(extractSelected), i \in 1..Len(extractSelected) :
              i < j => DistanceAtLeast(extractSelected[i], extractSelected[j], 30)
        /\ \A i \in 1..Len(extractResult), j \in 1..Len(extractResult) :
              i < j => extractResult[i] # extractResult[j]

\* C15: the call keeps exactly the sampled pixels whose alpha is above 128,
\* and when none is kept it returns DEFAULT_PALETTE instead of failing.
C15_AlphaFilterAndFallback ==
    extractPc # "called" =>
        /\ extractPc = "returned" =>
              /\ Len(extractPixels) = Cardinality(SampledVisible)
              /\ \A i \in 1..Len(extractPixels) :
                    \E k \in SampledVisible :
                       extractPixels[i] = <<extractImg.data[k][1], extractImg.data[k][2],
                                            extractImg.data[k][3]>>
        /\ SampledVisible = {} =>
              /\ extractPc = "returned"
              /\ extractResult = DEFAULT_PALETTE


(* Properties of the GIF timeline *)

\* C16: every frame handed to the encoder by one generateGif call has the
\* width and height of the first frame, which are the size of the GIF.
C16_SameFrameSize ==
    \A k \in 1..Len(gifFrames) :
        /\ gifFrames[k].width = gifSize.width
        /\ gifFrames[k].height = gifSize.height


\* The elements of arr at the indices in kept, in order
RECURSIVE Restrict(_, _)
Restrict(arr, kept) ==
    IF arr = <<>> THEN <<>>
    ELSE Restrict(SubSeq(arr, 1, Len(arr) - 1), kept)
            \o (IF Len(arr) \in kept THEN <<arr[Len(arr)]>> ELSE <<>>)

\* sub is arr with some elements left out
IsSubsequence(sub, arr) == \E kept \in SUBSET (1..Len(arr)) : sub = Restrict(arr, kept)

\* C17: a generateGif call adds the frames to the encoder in exactly the
\* timeline order of the moment, each with the frameDelay of the moment; and
\* the timeline changes only by a capture appending a frame at its end, by
\* removeFrame or clearFrames leaving frames out, and by a drop reordering it.
C17_TimelineOrder ==
    [][/\ gifCalls' # gifCalls =>
             /\ Len(gifFrames') = Len(frames)
             /\ \A i \in 1..Len(frames) :
                   /\ gifFrames'[i].id = frames[i].id
                   /\ gifFrames'[i].width = frames[i].width
                   /\ gifFrames'[i].height = frames[i].height
                   /\ gifFrames'[i].delay = frameDelay
       /\ \/ frames' = frames
          \/ /\ Len(frames') = Len(frames) + 1
             /\ SubSeq(frames', 1, Len(frames)) = frames
             /\ frames'[Len(frames')].id >= now
          \/ /\ Len(frames') < Len(frames)
             /\ timelineDragIndex = Null
             /\ IsSubsequence(frames', frames)
          \/ /\ timelineDragIndex # Null
             /\ frames' \in Reorderings(frames)]_vars

\* an encoder was given two frames after the later capture was dragged to
\* the front, with the delay set by the slider
C17_Witness ==
    /\ gifCalls = 1
    /\ Len(gifFrames) = 2
    /\ gifFrames[1].id > gifFrames[2].id
    /\ gifFrames[1].delay = 100
    /\ gifFrames[2].delay = 100

----------------------------------------------------------------------------
(* Error diffusion *)

\* The sixteenths of the error floydSteinbergDither adds to cell (jx, jy) when it
\* processes cell (x, y)
Weight(x, y, jx, jy) ==
    IF jx = x + 1 /\ jy = y THEN 7
    ELSE IF jx = x - 1 /\ jy = y + 1 THEN 3
    ELSE IF jx = x /\ jy = y + 1 THEN 5
    ELSE IF jx = x + 1 /\ jy = y + 1 THEN 1
    ELSE 0

\* The accumulators (in sixteenths) of every cell of the buffer, added up
RECURSIVE SumAccumulators(_, _, _)
SumAccumulators(px, c, n) == IF n = 0 THEN 0 ELSE px[n][c] + SumAccumulators(px, c, n - 1)

\* C18: at each processed cell old is the accumulator rounded and clamped to
\* 0..255, error = old - new per channel, and the accumulator of the right
\* neighbour grows by error * 7/16, of the below-left one by error * 3/16, of
\* the one below by error * 5/16 and of the below-right one by error * 1/16,
\* each only if it is inside the buffer; no other accumulator changes, and
\* with all four neighbours inside the amounts add up to exactly the error.
C18_ErrorDiffusion ==
    [][visited' # visited =>
        LET idx == Cardinality(visited)
            x == idx % width
            y == idx \div width
            err == <<oldColor'.r - newColor'.r, oldColor'.g - newColor'.g,
                     oldColor'.b - newColor'.b>>
        IN  /\ oldColor' = RGB(Clamp255(RoundDiv(pixels[idx + 1][1], 16)),
                               Clamp255(RoundDiv(pixels[idx + 1][2], 16)),
                               Clamp255(RoundDiv(pixels[idx + 1][3], 16)))
            /\ \A jx \in 0..(width - 1), jy \in 0..(height - 1), c \in 1..3 :
                   pixels'[jy * width + jx + 1][c] - pixels[jy * width + jx + 1][c]
                       = err[c] * Weight(x, y, jx, jy)
            /\ (x - 1 >= 0 /\ x + 1 < width /\ y + 1 < height) =>
                   \A c \in 1..3 :
                       SumAccumulators(pixels', c, width * height)
                           - SumAccumulators(pixels, c, width * height) = 16 * err[c]
    ]_vars

\* A cell with all four neighbours inside the buffer has been processed and
\* left a non-zero error
C18_Witness ==
    /\ width = 3 /\ height = 2
    /\ visited = {0, 1}
    /\ input[2] = Orange
    /\ oldColor.g # newColor.g /\ oldColor.b # newColor.b
    /\ pixels[3] # pixels[2]
    /\ pixels[4] # pixels[5] /\ pixels[5] # pixels[6]

----------------------------------------------------------------------------
(* Floyd-Steinberg on a uniform gray buffer *)

\* The buffer handed to floydSteinbergDither holds one gray level
UniformGray == \A i \in 1..Len(input) : input[i] = input[1] /\ input[1].r = input[1].g
                                         /\ input[1].g = input[1].b

\* The luminances (in thousandths) of a buffer, added up
RECURSIVE SumLuminance(_, _)
SumLuminance(dat, n) == IF n = 0 THEN 0 ELSE getLuminance(dat[n]) + SumLuminance(dat, n - 1)

\* The distance between two luminances that are one step of the palette
\* [#000000, #ffffff] apart
PaletteStep == getLuminance(White) - getLuminance(Black)

\* The average luminance of the output is within one palette step of the
\* average luminance of the source
WithinOneStep ==
    LET out == SumLuminance(data, Len(data))
        src == SumLuminance(input, Len(input))
    IN  out - src <= PaletteStep * Len(data) /\ src - out <= PaletteStep * Len(data)

\* The output has both a black and a white pixel
IsMix == (\E i \in 1..Len(data) : data[i] = Black) /\ (\E i \in 1..Len(data) : data[i] = White)

----------------------------------------------------------------------------
(* The dither functions in the gradient modes *)

GradientPalettes ==
    {<<>>, <<Red>>, <<Black, White>>, <<Black, Red, White>>, <<Black, Gray, White>>}

\* A call of either dither function with a gradient palette mode
InitGradient ==
    /\ HexIdle
    /\ ProcessIdle
    /\ UIIdle
    /\ ExtractIdle
    /\ NoFrames
    /\ \E d \in Dims :
          /\ width = d[1]
          /\ height = d[2]
          /\ data \in [1..(d[1] * d[2]) -> PixelColors]
    /\ input = data
    /\ palette \in GradientPalettes
    /\ paletteMode \in {"gradient-horizontal", "gradient-vertical"}
    /\ algorithm \in Algorithms
    /\ pixels = IF algorithm = "floyd-steinberg" THEN FloatCopy(data) ELSE <<>>
    /\ visited = {}
    /\ oldColor = Undefined
    /\ newColor = Undefined
    /\ status = "running"

NextGradient == FloydSteinbergStep \/ OrderedStep

SpecGradient == InitGradient /\ [][NextGradient]_vars

----------------------------------------------------------------------------
(* medianCut at a leaf *)

MaxLeafPixels == 3

LeafColors == {<<0, 0, 0>>, <<0, 40, 0>>, <<0, 0, 45>>, <<255, 0, 0>>, <<255, 255, 255>>}

\* A call medianCut(pixels, 0) with a non-empty bucket
InitLeaf ==
    /\ DitherIdle
    /\ HexIdle
    /\ ProcessIdle
    /\ UIIdle
    /\ NoFrames
    /\ extractImg = NoImage /\ extractCount = 0
    /\ extractPixels = <<>> /\ extractFirst = 0 /\ extractSelected = <<>>
    /\ extractResult = <<>> /\ extractPc = "idle"
    /\ leafPixels \in UNION {[1..n -> LeafColors] : n \in 1..MaxLeafPixels}
    /\ leafResult = <<>>

\* The call returns [extremeColor]
LeafReturns ==
    /\ leafResult = <<>>
    /\ leafResult' = medianCut(leafPixels, 0)
    /\ UNCHANGED <<extractImg, extractCount, extractPixels, extractFirst, extractSelected,
                   extractResult, extractPc, leafPixels>>
    /\ UNCHANGED <<ditherVars, hexVars, processVars, uiVars, settingsVars, gifVars>>

NextLeaf == LeafReturns

SpecLeaf == InitLeaf /\ [][NextLeaf]_vars

----------------------------------------------------------------------------
(* Dragging a swatch while the palette changes *)

\* The component after a fully transparent image was loaded, "Extract from
\* image" ticked and the colour count 2 selected: the extraction returned
\* DEFAULT_PALETTE
InitDrag ==
    /\ DitherIdle
    /\ HexIdle
    /\ ProcessIdle
    /\ ExtractIdle
    /\ NoFrames
    /\ uiPalette = DEFAULT_PALETTE
    /\ uiNewColor = HexString("0", "0", "0", "0", "0", "0")
    /\ editingIndex = Null
    /\ dragIndex = Null
    /\ sourceImage = TransparentImage
    /\ useImagePalette = TRUE
    /\ paletteColorCount = MinColorCount
    /\ userPresets = <<>>
    /\ processCalls = <<>>
    /\ processSizes = <<>>
    /\ uiEvents = 0
    /\ uiPixelSize = 40
    /\ debouncedPixelSize = 40
    /\ uiAlgorithm = "floyd-steinberg"
    /\ uiPaletteMode = "nearest"
    /\ frameDelay = 500
    /\ uiPc = "ready"

NextDrag ==
    \/ ImageLoaded
    \/ ClickSwatch
    \/ RemoveColor
    \/ DragStart
    \/ PaletteDrop
    \/ DragEnd

SpecDrag == InitDrag /\ [][NextDrag]_vars

----------------------------------------------------------------------------
(* GIF encoding *)

\* The component mounted and a 1x1 image loaded
InitEncode ==
    /\ DitherIdle
    /\ HexIdle
    /\ ProcessIdle
    /\ ExtractIdle
    /\ uiPalette = DEFAULT_PALETTE
    /\ uiNewColor = HexString("0", "0", "0", "0", "0", "0")
    /\ editingIndex = Null
    /\ dragIndex = Null
    /\ sourceImage = RedImage
    /\ useImagePalette = FALSE
    /\ paletteColorCount = 5
    /\ userPresets = <<>>
    /\ processCalls = <<>>
    /\ processSizes = <<>>
    /\ uiEvents = 0
    /\ uiPixelSize = 40
    /\ debouncedPixelSize = 40
    /\ uiAlgorithm = "floyd-steinberg"
    /\ uiPaletteMode = "nearest"
    /\ frameDelay = 500
    /\ NoFrames
    /\ uiPc = "ready"

NextEncode ==
    \/ CaptureFrame
    \/ RemoveFrame
    \/ ClearFrames
    \/ GenerateGif
    \/ GifProgress
    \/ GifFinished

SpecEncode == InitEncode /\ [][NextEncode]_vars

(***************************************************************************)
(* The debounced pixel size *)
(***************************************************************************)

\* The component with an image loaded or not, the slider, the presets and the
\* timer of useDebounce, which fires once pixelSize has rested for the delay
NextDebounce ==
    \/ Mount
    \/ ImageLoaded
    \/ SaveUserPreset
    \/ LoadUserPreset
    \/ SetPixelSize
    \/ SetAlgorithm
    \/ DebounceElapsed

SpecDebounce == InitUI /\ [][NextDebounce]_vars /\ WF_vars(DebounceElapsed)

(***************************************************************************)
(* The user presets *)
(***************************************************************************)

\* The longest array of presets found in localStorage
MaxStoredPresets == 51

\* A stored preset that passes the checks of the localStorage effect
StoredPreset ==
    [palette |-> << HexString("0", "0", "0", "0", "0", "0") >>,
     pixelSize |-> 55, algorithm |-> "ordered", paletteMode |-> "luminance",
     useImagePalette |-> FALSE, paletteColorCount |-> 5, frameDelay |-> 300]

\* JSON.parse(stored) for an array of n such presets
RECURSIVE PresetList(_)
PresetList(n) == IF n = 0 THEN <<>> ELSE Append(PresetList(n - 1), StoredPreset)

\* localStorage: nothing stored, one preset short of the limit, as many as
\* the limit, and an array longer than the limit
LongPresetLists ==
    {<<>>, PresetList(PresetLimit - 1), PresetList(PresetLimit), PresetList(MaxStoredPresets)}

\* The mount effects with these contents of localStorage
MountLong ==
    /\ uiPc = "mounting"
    /\ uiPc' = "ready"
    /\ \E parsed \in LongPresetLists : userPresets' = StoredPresets(parsed)
    /\ \E query \in UrlQueries :
          /\ Render(UrlPalette(query.palette, uiPalette), sourceImage, useImagePalette,
                    paletteColorCount, FALSE, FALSE)
          /\ uiPixelSize' = UrlNumber(query.pixelSize, MinPixelSize, MaxPixelSize, uiPixelSize)
          /\ uiAlgorithm' = IF query.algorithm \in Algorithms THEN query.algorithm
                            ELSE uiAlgorithm
          /\ uiPaletteMode' = IF query.paletteMode \in Modes THEN query.paletteMode
                              ELSE uiPaletteMode
          /\ frameDelay' = UrlNumber(query.frameDelay, MinFrameDelay, MaxFrameDelay, frameDelay)
    /\ UNCHANGED <<uiNewColor, editingIndex, dragIndex, sourceImage, useImagePalette,
                   paletteColorCount, uiEvents, debouncedPixelSize>>
    /\ UNCHANGED <<ditherVars, hexVars, processVars, extractVars, gifVars>>

NextPresets ==
    \/ MountLong
    \/ SaveUserPreset
    \/ ImportUserPresets
    \/ DeleteUserPreset

SpecPresets == InitUI /\ [][NextPresets]_vars

----------------------------------------------------------------------------
(* The gradient pipeline *)

\* gradientColor(palette, pos) with pos = pn/pd: the single entry of a
\* one-entry palette, the last entry when floor(pos * (N - 1)) >= N - 1, and
\* otherwise lerp(palette[i], palette[i + 1], t)
GradientColorOf(pal, pn, pd) ==
    LET N == Len(pal)
        i == (pn * (N - 1)) \div pd
    IN  IF N = 1 THEN pal[1]
        ELSE IF i >= N - 1 THEN At(pal, N - 1)
        ELSE lerpColor(At(pal, i), At(pal, i + 1), pn * (N - 1) - i * pd, pd)

\* nearest(lerp(gradientColor(palette, pos), nearest(c, palette), 0.5), palette)
GradientPipeline(c, pal, pn, pd) ==
    findNearestColor(lerpColor(GradientColorOf(pal, pn, pd), findNearestColor(c, pal), 1, 2),
                     pal)

\* C20: in both gradient modes and under both algorithms, the colour chosen at
\* a cell is nearest(lerp(gradientColor(palette, pos), nearest(c, palette),
\* 0.5), palette) with pos = x / width (horizontal) or y / height (vertical),
\* c being the colour the switch is entered with; the first assignment of the
\* Floyd-Steinberg horizontal branch changes nothing.
C20_GradientPipeline ==
    [][(paletteMode \in {"gradient-horizontal", "gradient-vertical"}
          /\ (visited' # visited \/ status' = "threw")) =>
        LET idx == Cardinality(visited)
            x == idx % width
            y == idx \div width
        IN  newColor' = IF paletteMode = "gradient-horizontal"
                        THEN GradientPipeline(oldColor', palette, x, width)
                        ELSE GradientPipeline(oldColor', palette, y, height)
    ]_vars

\* Floyd-Steinberg in horizontal mode has emitted, at a cell whose gradient
\* colour lies between two palette entries, a colour other than the one
\* nearest to the cell's own colour
C20_Witness ==
    /\ algorithm = "floyd-steinberg" /\ paletteMode = "gradient-horizontal"
    /\ width = 4 /\ visited = {0, 1}
    /\ Len(palette) = 3
    /\ IsColor(newColor)
    /\ ~(\E i \in 1..3 : GradientColorOf(palette, 1, 4) = palette[i])
    /\ newColor # findNearestColor(oldColor, palette)

----------------------------------------------------------------------------
(* The Bayer offset *)

\* The entries of BAYER_MATRIX_4x4, as a bag of values
MatrixEntries == {<<i, j, BAYER_MATRIX_4x4[i][j]>> : i \in 1..4, j \in 1..4}

\* C21: in orderedDither the value added to each channel at (x, y) is
\* threshold * 64 with threshold = BAYER_MATRIX_4x4[y mod 4][x mod 4] / 16 - 0.5;
\* the matrix holds each of 0..15 exactly once, the threshold lies in
\* [-0.5, 0.4375] (-8/16 .. 7/16), the offset is one of the 16 integers 4m - 32
\* in [-32, 28], and the perturbed channel is clamped into 0..255 before the
\* palette assignment.
C21_BayerOffset ==
    [][visited' # visited =>
        LET idx == Cardinality(visited)
            x == idx % width
            y == idx \div width
            m == BAYER_MATRIX_4x4[(y % 4) + 1][(x % 4) + 1]
            offset == 4 * m - 32
            Perturbed(v) == IF v + offset < 0 THEN 0 ELSE IF v + offset > 255 THEN 255
                            ELSE v + offset
        IN  /\ \A v \in 0..15 : Cardinality({e \in MatrixEntries : e[3] = v}) = 1
            /\ 16 * getBayerThreshold(x, y) = 16 * m - 8 * 16
            /\ getBayerThreshold(x, y) >= -8 /\ getBayerThreshold(x, y) <= 7
            /\ offset \in {4 * k - 32 : k \in 0..15}
            /\ offset >= -32 /\ offset <= 28
            /\ 16 * offset = getBayerThreshold(x, y) * 64
            /\ oldColor' = RGB(Perturbed(data[idx + 1].r), Perturbed(data[idx + 1].g),
                               Perturbed(data[idx + 1].b))
            /\ data[idx + 1] = input[idx + 1]
            /\ newColor' \in {palette[i] : i \in 1..Len(palette)}
            /\ data'[idx + 1] = newColor'
    ]_vars

\* The cell (0, 3), where the matrix holds 15, has been processed: the offset
\* 28 was added and the blue channel clamped at 255
C21_Witness ==
    /\ algorithm = "ordered"
    /\ width = 4 /\ height = 4
    /\ visited = 0..12
    /\ input[13] = Teal
    /\ oldColor = RGB(38, 156, 255)

----------------------------------------------------------------------------
(* The representative of a median-cut leaf *)

\* Math.round of the channel-wise mean of the bucket
LeafMean ==
    LET n == Len(leafPixels)
        Total(ch) == SumChannel(leafPixels, ch)
        Rounded(ch) == (2 * Total(ch) + n) \div (2 * n)
    IN  <<Rounded(1), Rounded(2), Rounded(3)>>

\* The square of the Euclidean distance over (R, G, B)
EuclideanSq(a, b) ==
    (a[1] - b[1]) * (a[1] - b[1]) + (a[2] - b[2]) * (a[2] - b[2])
        + (a[3] - b[3]) * (a[3] - b[3])

\* 512 times the square of the redmean distance
PerceptualSq(a, b) ==
    (1024 + a[1] + b[1]) * (a[1] - b[1]) * (a[1] - b[1])
        + 2048 * (a[2] - b[2]) * (a[2] - b[2])
        + (1534 - a[1] - b[1]) * (a[3] - b[3]) * (a[3] - b[3])

\* C22 as stated: the representative of a non-empty leaf is the first member
\* of the subset that is farthest from the rounded mean by the Euclidean
\* distance.
C22_EuclideanFarthest ==
    leafResult # <<>> =>
        \E i \in 1..Len(leafPixels) :
            /\ leafResult = <<leafPixels[i]>>
            /\ \A j \in 1..Len(leafPixels) :
                   EuclideanSq(leafPixels[j], LeafMean) <= EuclideanSq(leafPixels[i], LeafMean)
            /\ \A j \in 1..(i - 1) :
                   EuclideanSq(leafPixels[j], LeafMean) < EuclideanSq(leafPixels[i], LeafMean)

\* C22 amended: the representative of a non-empty leaf is the first member of
\* the subset that is farthest from the rounded mean by the redmean distance
\* (colorDistance).
C22_RedmeanFarthest ==
    leafResult # <<>> =>
        \E i \in 1..Len(leafPixels) :
            /\ leafResult = <<leafPixels[i]>>
            /\ \A j \in 1..Len(leafPixels) :
                   PerceptualSq(leafPixels[j], LeafMean) <= PerceptualSq(leafPixels[i], LeafMean)
            /\ \A j \in 1..(i - 1) :
                   PerceptualSq(leafPixels[j], LeafMean) < PerceptualSq(leafPixels[i], LeafMean)

\* A leaf of three colours has returned the second one, which is farthest
\* from the mean by redmean and not by the Euclidean distance
C22_Witness ==
    /\ leafPixels = << <<0, 0, 0>>, <<0, 40, 0>>, <<0, 0, 45>> >>
    /\ leafResult = << <<0, 40, 0>> >>
    /\ EuclideanSq(leafPixels[3], LeafMean) > EuclideanSq(leafPixels[2], LeafMean)

----------------------------------------------------------------------------
(* The sampling grid of the extractor *)

\* C23: for every source image with width >= 1 and height >= 1 the sampling
\* canvas of extractColorsFromImage has both dimensions between 1 and 150 and
\* neither exceeds the source's, so the extraction never works on an empty grid
\* and getImageData does not throw.
C23_SamplingGrid ==
    (extractPc # "idle" /\ extractImg.width >= 1 /\ extractImg.height >= 1) =>
        /\ SampledDimension(extractImg.width, extractImg) \in 1..sampleSize
        /\ SampledDimension(extractImg.height, extractImg) \in 1..sampleSize
        /\ SampledDimension(extractImg.width, extractImg) <= extractImg.width
        /\ SampledDimension(extractImg.height, extractImg) <= extractImg.height
        /\ extractPc # "threw"

----------------------------------------------------------------------------
(* The edited swatch *)

\* C24: in every reachable state of the component editingIndex is null or an
\* index of the current palette, 0 <= editingIndex < palette.length.
C24_EditingIndexValid ==
    uiPc = "ready" =>
        (editingIndex = Null \/ (0 <= editingIndex /\ editingIndex < Len(uiPalette)))

----------------------------------------------------------------------------
(* Reordering by drag and drop *)

\* arr without its element at position i (from 1)
Without(arr, i) == [j \in 1..(Len(arr) - 1) |-> IF j < i THEN arr[j] ELSE arr[j + 1]]

\* after is before with the element at index from (from 0) moved to some index
MovedFrom(before, after, from) ==
    /\ from < Len(before)
    /\ Len(after) = Len(before)
    /\ \E to \in 0..(Len(before) - 1) :
          /\ after[to + 1] = before[from + 1]
          /\ Without(after, to + 1) = Without(before, from + 1)

\* C25: a drop (handlePaletteDrop, handleTimelineDrop) only permutes the list
\* as it is at drop time: the list is unchanged or the dragged element has moved
\* to the drop index, nothing is lost, duplicated or undefined, whatever
\* happened to the list between the drag start and the drop.
C25_DropPermutes ==
    [][/\ (dragIndex # Null /\ dragIndex' = Null) =>
            (uiPalette' = uiPalette \/ MovedFrom(uiPalette, uiPalette', dragIndex))
       /\ (timelineDragIndex # Null /\ timelineDragIndex' = Null) =>
            (frames' = frames \/ MovedFrom(frames, frames', timelineDragIndex))
    ]_vars

----------------------------------------------------------------------------
(* Frame ids *)

\* C26: the ids of the frames of the timeline are pairwise distinct after any
\* sequence of captureFrame calls, so that removeFrame(id) removes exactly one
\* frame and leaves the others in place and in order.
C26_FrameIdsDistinct ==
    /\ \A i, j \in 1..Len(frames) : frames[i].id = frames[j].id => i = j
    /\ \A i \in 1..Len(frames) :
          removeFrame(frames, frames[i].id) = Without(frames, i)

----------------------------------------------------------------------------
(* One GIF encoding at a time *)

\* C27: at most one encoder is rendering at any time and isGeneratingGif is
\* true exactly while one is; generateGif constructs an encoder only with two
\* or more frames and while none is rendering, and then sets isGeneratingGif
\* and gifProgress 0; the "finished" event sets isGeneratingGif false and
\* gifProgress 0 and calls the completion callback once, so every encoder
\* constructed has completed exactly once or is the one rendering.
C27_SingleEncoding ==
    [][/\ gifPending' \in {0, 1}
       /\ isGeneratingGif' = (gifPending' = 1)
       /\ gifCalls' # gifCalls =>
             /\ Len(frames) >= 2
             /\ ~isGeneratingGif /\ gifPending = 0
             /\ gifCalls' = gifCalls + 1
             /\ isGeneratingGif' /\ gifProgress' = 0
       /\ gifPending' < gifPending =>
             /\ ~isGeneratingGif' /\ gifProgress' = 0
             /\ gifCompletions' = gifCompletions + 1
       /\ gifCompletions' # gifCompletions => gifPending' < gifPending
       /\ gifCompletions' + gifPending' = gifCalls'
       /\ ~isGeneratingGif' => gifProgress' = 0
    ]_vars

\* A second encoding is in progress at 50% after the first one completed
C27_Witness ==
    /\ gifCalls = 2 /\ gifCompletions = 1 /\ gifPending = 1
    /\ isGeneratingGif /\ gifProgress = 50

(***************************************************************************)
(* C28 *)
(***************************************************************************)

\* A step that changes pixelSize leaves the debounced value alone, so the new
\* value has to rest until the timer fires before it can be passed on
SupersededNeverProcessed ==
    uiPixelSize' # uiPixelSize =>
        /\ debouncedPixelSize' = debouncedPixelSize
        /\ \A k \in 1..Len(processSizes') :
              processSizes'[k] = uiPixelSize' => uiPixelSize' = debouncedPixelSize

\* The debounced value changes only to the value pixelSize holds and keeps,
\* and the preview of a loaded image is then reprocessed with it
DebouncedTakesHeldValue ==
    debouncedPixelSize' # debouncedPixelSize =>
        /\ debouncedPixelSize' = uiPixelSize
        /\ uiPixelSize' = uiPixelSize
        /\ sourceImage # NoImage => processSizes' = <<uiPixelSize>>

\* processImage only ever receives the debounced value
ProcessedWithDebounced ==
    \A k \in 1..Len(processSizes') : processSizes'[k] = debouncedPixelSize'

\* C28: the debounced pixel size only takes values pixelSize has held; a
\* pixelSize change superseded before the timer fires never reaches
\* processImage; and once pixelSize rests for the delay the debounced value
\* becomes equal to it and the preview is reprocessed with it.
C28_Debounce ==
    /\ [][SupersededNeverProcessed /\ DebouncedTakesHeldValue
            /\ ProcessedWithDebounced]_vars
    /\ (debouncedPixelSize # uiPixelSize) ~> (debouncedPixelSize = uiPixelSize)

\* The timer has fired for a rested value of the slider while an image is
\* loaded: the preview was reprocessed with a size other than the initial one
C28_Witness ==
    /\ sourceImage # NoImage
    /\ uiPixelSize = 100
    /\ debouncedPixelSize = 100
    /\ processSizes = <<100>>
    /\ uiEvents = MaxUIEvents

(***************************************************************************)
(* C29 *)
(***************************************************************************)

\* C29: the number of user presets never exceeds 50, after any sequence of
\* the mount-time load from localStorage, saveUserPreset, importUserPresets
\* and deleteUserPreset.
C29_PresetLimit == Len(userPresets) <= PresetLimit

(***************************************************************************)
(* C30 *)
(***************************************************************************)

\* Every pixel of the buffer passed in equals an entry of the palette
AlreadyDithered ==
    \A i \in 1..Len(input) : \E k \in 1..Len(palette) : palette[k] = input[i]

\* C30: Floyd-Steinberg in nearest mode leaves unchanged every buffer whose
\* pixels all equal palette colours: each cell maps to itself and the
\* diffused error is zero; hence dithering the buffer a whole call leaves
\* again, with the same palette, returns that buffer.
C30_Idempotent ==
    (algorithm = "floyd-steinberg" /\ paletteMode = "nearest") =>
        /\ AlreadyDithered =>
              /\ status # "threw"
              /\ data = input
              /\ pixels = FloatCopy(input)
              /\ visited # {} => newColor = oldColor
        /\ status = "done" =>
              DitherRun("floyd-steinberg", data, width, height, palette, "nearest") = data

\* A whole call has run on a buffer of MaxCells cells holding both entries of
\* a palette of two colours
C30_Witness ==
    /\ algorithm = "floyd-steinberg" /\ paletteMode = "nearest"
    /\ status = "done"
    /\ AlreadyDithered
    /\ width * height = MaxCells
    /\ Len(palette) >= 2
    /\ \E i, j \in 1..Len(input) : input[i] = palette[1] /\ input[j] = palette[2]
    /\ palette[1] # palette[2]
    /\ data = input

====
